---- MODULE Spec2Model ----
(***************************************************************************)
(* A model of the control-flow lowering pass of src/index.ts.              *)
(*                                                                         *)
(* The pass walks an ESTree AST once and appends lowered statements to     *)
(* Context.statements; jumps are Goto objects whose numeric target is      *)
(* patched after the jump statement has been emitted.  The walk is a set   *)
(* of mutually recursive handlers; each is an operator here that takes the *)
(* Context (a record) and returns the Context it leaves behind.            *)
(*                                                                         *)
(* Conventions                                                             *)
(*   - AST nodes are records with a "type" field, as in ESTree.            *)
(*   - An absent optional child (undefined/null in the source) is None.    *)
(*   - Literal values are kept as their source text ("1", "m").            *)
(*   - Goto objects live in Context.gotos and are named by their index;    *)
(*     the statement object Goto._stmt, which the source may push into     *)
(*     the statement list several times, is GotoStmt(g): two occurrences   *)
(*     with the same g are the same JavaScript object.                     *)
(*   - Positions are 0-based as in the source (pos() = statements.length); *)
(*     TLA+ sequences are 1-based, StmtAt converts.                        *)
(*   - A thrown Error is the field error # "" of the Context; the first    *)
(*     error is kept and the main program stops on it.                     *)
(*   - Context.events is a history of what the handlers did (positions     *)
(*     taken with pos() while lowering); no handler reads it.              *)
(***************************************************************************)
EXTENDS Integers, Sequences, FiniteSets, TLC

VARIABLES ast, context, pc

vars == <<ast, context, pc>>

\* ------------------------------------------------------------------------
\* Bounds of the model

\* number of top-level statements of the program being lowered
MaxTop == 2

\* number of clauses of the switch statements of SwitchSpec
MaxCases == 3

\* number of calls made on the Goto objects of GotoSpec
MaxCalls == 5

\* ------------------------------------------------------------------------
\* Values standing for JavaScript's undefined

\* an absent optional child node
None == [type |-> "None"]

IsNone(node) == node.type = "None"

\* Goto._gotoArg.value before resolve()
Undefined == -1

\* labelStack[i].goto when the frame cannot be continued to, and the
\* no-op handle `{ resolve() {} }` of SwitchStatement
NoGoto == 0

\* a statement without leadingComments
NoComment == -1

\* ------------------------------------------------------------------------
\* build.* : constructors of AST nodes

Ident(name) == [type |-> "Identifier", name |-> name, kind |-> ""]

TempIdent(n) == [type |-> "Identifier", name |-> "$" \o ToString(n), kind |-> "temp"]

Literal(value) == [type |-> "Literal", value |-> value, regex |-> FALSE]

RegExpLiteral(value) == [type |-> "Literal", value |-> value, regex |-> TRUE]

ExprStmt(expression) == [type |-> "ExpressionStatement", expression |-> expression]

CallExpr(callee, args) == [type |-> "CallExpression", callee |-> callee, arguments |-> args]

BinExpr(left, operator, right) ==
    [type |-> "BinaryExpression", left |-> left, operator |-> operator, right |-> right]

UnExpr(operator, argument) ==
    [type |-> "UnaryExpression", operator |-> operator, argument |-> argument]

AssignExpr(left, operator, right) ==
    [type |-> "AssignmentExpression", left |-> left, operator |-> operator, right |-> right]

\* Goto._stmt of the Goto object g: GOTO(<g's target>)
GotoStmt(g) == [type |-> "GotoStatement", goto |-> g]

BranchingGotoStmt(test, g) ==
    [type |-> "IfStatement", test |-> test, consequent |-> GotoStmt(g)]

Undef == Ident("undefined")

EmptyStmt == [type |-> "EmptyStatement"]

VarDeclarator(id, init) == [type |-> "VariableDeclarator", id |-> id, init |-> init]

VarDeclaration(declarations) ==
    [type |-> "VariableDeclaration", kind |-> "var", declarations |-> declarations]

\* ------------------------------------------------------------------------
\* Input-only node shapes (what the parser produces)

MemberExpr(object, property, computed) ==
    [type |-> "MemberExpression", object |-> object, property |-> property,
     computed |-> computed]

FunctionExpr(stmts) ==
    [type |-> "FunctionExpression", body |-> [type |-> "BlockStatement", body |-> stmts],
     funcContext |-> None]

DebuggerStmt == [type |-> "DebuggerStatement"]

LabeledStmt(name, body) ==
    [type |-> "LabeledStatement", label |-> Ident(name), body |-> body]

BlockStmt(stmts) == [type |-> "BlockStatement", body |-> stmts]

BreakStmt(label) == [type |-> "BreakStatement", label |-> label]

ContinueStmt(label) == [type |-> "ContinueStatement", label |-> label]

ReturnStmt(argument) == [type |-> "ReturnStatement", argument |-> argument]

IfStmt(test, consequent, alternate) ==
    [type |-> "IfStatement", test |-> test, consequent |-> consequent,
     alternate |-> alternate]

WhileStmt(test, body) == [type |-> "WhileStatement", test |-> test, body |-> body]

DoWhileStmt(body, test) == [type |-> "DoWhileStatement", body |-> body, test |-> test]

ForStmt(init, test, update, body) ==
    [type |-> "ForStatement", init |-> init, test |-> test, update |-> update,
     body |-> body]

SwitchCase(test, consequent) ==
    [type |-> "SwitchCase", test |-> test, consequent |-> consequent]

SwitchStmt(discriminant, cases) ==
    [type |-> "SwitchStatement", discriminant |-> discriminant, cases |-> cases]

FunctionDecl(name, stmts) ==
    [type |-> "FunctionDeclaration", id |-> Ident(name),
     body |-> [type |-> "BlockStatement", body |-> stmts], funcContext |-> None]

ThrowStmt(argument) == [type |-> "ThrowStatement", argument |-> argument]

CatchClause(param, body) == [type |-> "CatchClause", param |-> param, body |-> body]

TryStmt(block, handler, finalizer) ==
    [type |-> "TryStatement", block |-> block, handler |-> handler,
     finalizer |-> finalizer]

WithStmt(object, body) == [type |-> "WithStatement", object |-> object, body |-> body]

ForInStmt(left, right, body) ==
    [type |-> "ForInStatement", left |-> left, right |-> right, body |-> body]

LogicalExpr(left, operator, right) ==
    [type |-> "LogicalExpression", left |-> left, operator |-> operator, right |-> right]

ThisExpr == [type |-> "ThisExpression"]

\* ------------------------------------------------------------------------
\* Type tests

is(node, type) == node.type = type

isTempVar(node) == is(node, "Identifier") /\ node.kind = "temp"

isSimpleLiteral(node) == is(node, "Literal") /\ ~node.regex

\* ------------------------------------------------------------------------
\* class Context: construction and the simple accessors

RESULT == Ident("__RESULT")

ERROR == Ident("__ERROR")

NewContext ==
    [varCounter |-> 0,
     freeVars |-> <<>>,
     scopeVars |-> <<>>,
     statements |-> <<>>,
     stmtComments |-> <<>>,
     labelStack |-> <<>>,
     pendingBreaks |-> <<>>,
     pendingReturns |-> <<>>,
     pendingThrows |-> <<>>,
     hadGotos |-> {},
     gotos |-> <<>>,
     error |-> "",
     tryStack |-> <<>>,
     events |-> <<>>]

\* `throw new Error(msg)`: the first error thrown is the one that surfaces
Throw(c, msg) == IF c.error # "" THEN c ELSE [c EXCEPT !.error = msg]

Failed(c) == c.error # ""

\* an error was thrown on the way through the Contexts cs, which are given in
\* the order the code reaches them
Thrown(cs) == \E i \in DOMAIN cs : Failed(cs[i])

pos(c) == Len(c.statements)

\* statements[p] of the source (0-based)
StmtAt(c, p) == c.statements[p + 1]

\* this.statements.push(stmt); a pushed statement has no leadingComments
push(c, stmt) ==
    [c EXCEPT !.statements = Append(@, stmt), !.stmtComments = Append(@, NoComment)]

\* history only: remember what a handler did
Record(c, event) == [c EXCEPT !.events = Append(@, event)]

\* varCounter - freeVars.length
Locked(c) == c.varCounter - Len(c.freeVars)

HasScopeVar(c, name) == \E i \in 1..Len(c.scopeVars) : c.scopeVars[i].id.name = name

addScopeVar(c, id) ==
    IF HasScopeVar(c, id.name) THEN c
    ELSE [c EXCEPT !.scopeVars = Append(@, VarDeclarator(id, None))]

\* addScopeVar(id).init = init
setScopeVarInit(c, id, init) ==
    LET c1 == addScopeVar(c, id)
    IN [c1 EXCEPT !.scopeVars =
            [i \in 1..Len(@) |-> IF @[i].id.name = id.name
                                 THEN [@[i] EXCEPT !.init = init] ELSE @[i]]]

\* ------------------------------------------------------------------------
\* class Goto

NewGoto ==
    [inserted |-> FALSE, confirmed |-> FALSE, value |-> Undefined,
     leadingComments |-> NoComment]

\* new Goto(this): the result is the Context and the new object's name
createGoto(c) ==
    [c |-> [c EXCEPT !.gotos = Append(@, NewGoto)], g |-> Len(c.gotos) + 1]

Goto_confirm(c, g) ==
    IF c.gotos[g].confirmed THEN c
    ELSE IF c.gotos[g].inserted /\ c.gotos[g].value # Undefined
         THEN [c EXCEPT !.hadGotos = @ \cup {c.gotos[g].value},
                        !.gotos[g].confirmed = TRUE]
         ELSE c

\* returns this._stmt, which is GotoStmt(g)
getForInsertion(c, g) == Goto_confirm([c EXCEPT !.gotos[g].inserted = TRUE], g)

Goto_insert(c, g) == push(getForInsertion(c, g), GotoStmt(g))

\* Goto_resolve with the test of line 193 on the truth of the target: a
\* target of 0 counts as none
Goto_resolve_truthy(c, g) ==
    IF c.gotos[g].value # Undefined /\ c.gotos[g].value # 0
    THEN Throw(c, "GOTO was already resolved.")
    ELSE Goto_confirm([c EXCEPT !.gotos[g].value = pos(c)], g)

Goto_resolve(c, g) ==
    IF c.gotos[g].value # Undefined THEN Throw(c, "GOTO was already resolved.")
    ELSE Goto_confirm([c EXCEPT !.gotos[g].value = pos(c)], g)

\* resolve() of a handle that may be the no-op handle of SwitchStatement
Handle_resolve(c, g) == IF g = NoGoto THEN c ELSE Goto_resolve(c, g)

RECURSIVE resolveAll(_, _)
\* for (const h of handles) h.resolve()
resolveAll(c, handles) ==
    IF Len(handles) = 0 \/ Failed(c) THEN c
    ELSE resolveAll(Goto_resolve(c, Head(handles)), Tail(handles))

createGotoToHere(c) ==
    LET n == createGoto(c) IN [c |-> Goto_resolve(n.c, n.g), g |-> n.g]

\* insertPendingGoto through createGotoToHere: the handle it inserts has its
\* target already
insertPendingGoto_here(c) ==
    LET n == createGotoToHere(c) IN [c |-> Goto_insert(n.c, n.g), g |-> n.g]

insertPendingGoto(c) ==
    LET n == createGoto(c) IN [c |-> Goto_insert(n.c, n.g), g |-> n.g]

\* ------------------------------------------------------------------------
\* class Context: temporaries, helper calls, branches, label frames

RECURSIVE transform(_, _, _)

\* context.transformStmt(stmt)
transformStmt(c, stmt) == transform(c, stmt, "stmtHandlers").c

\* context.transformExpr(expr)
transformExpr(c, expr) == transform(c, expr, "exprHandlers")

RECURSIVE transformStmts(_, _)
RECURSIVE useTempVars(_, _)
RECURSIVE leave(_)

\* the result is the Context and the statement built
assign(c, id, init, insert) ==
    LET r == transformExpr(c, init)
        stmt == ExprStmt(AssignExpr(id, "=", r.e))
    IN [c |-> IF insert THEN push(r.c, stmt) ELSE r.c, stmt |-> stmt]

\* the result is the Context and the reusable expression
useTempVar(c, init) ==
    IF isTempVar(init) \/ isSimpleLiteral(init) THEN [c |-> c, e |-> init]
    ELSE LET n == Len(c.freeVars)
             id == IF n > 0 THEN c.freeVars[n] ELSE TempIdent(c.varCounter)
             c1 == IF n > 0 THEN [c EXCEPT !.freeVars = SubSeq(@, 1, n - 1)]
                   ELSE addScopeVar([c EXCEPT !.varCounter = @ + 1], id)
         IN [c |-> assign(c1, id, init, TRUE).c, e |-> id]

freeTempVar(c, id) ==
    IF isTempVar(id) THEN [c EXCEPT !.freeVars = Append(@, id)] ELSE c

\* useTempVars walking the arguments from the last to the first
useTempVars_lastFirst(c, args) ==
    IF Len(args) = 0 \/ Failed(c) THEN [c |-> c, es |-> <<>>, bound |-> <<>>, from |-> pos(c)]
    ELSE LET rest == useTempVars(c, Tail(args))
             r == useTempVar(rest.c, Head(args))
         IN [c |-> r.c, es |-> <<r.e>> \o rest.es,
             bound |-> <<pos(r.c)>> \o rest.bound, from |-> pos(c)]

\* args.map(arg => this.useTempVar(arg)): the Context and the evaluated args;
\* history only: from is pos() before the first argument and bound[k] is
\* pos() after the k-th
useTempVars(c, args) ==
    IF Len(args) = 0 \/ Failed(c) THEN [c |-> c, es |-> <<>>, bound |-> <<>>, from |-> pos(c)]
    ELSE LET r == useTempVar(c, Head(args))
             rest == useTempVars(r.c, Tail(args))
         IN [rest EXCEPT !.es = <<r.e>> \o @, !.bound = <<pos(r.c)>> \o @,
                         !.from = pos(c)]

\* evaluatedArgs.forEach(arg => this.freeTempVar(arg))
freeTempVars(c, es) == [c EXCEPT !.freeVars = @ \o SelectSeq(es, isTempVar)]

\* history only: the innermost try statement with a handler whose block is
\* being lowered (0: none)
CurrentTry(c) == IF Len(c.tryStack) = 0 THEN 0 ELSE c.tryStack[Len(c.tryStack)]

\* the throw-check of execForeign, lines 249-250: n is the new Goto, call the
\* position of the helper call and ev its evaluated arguments
insertThrowCheck(n, call, ev) ==
    [c |-> Record([push(getForInsertion(n.c, n.g), BranchingGotoStmt(ERROR, n.g))
                      EXCEPT !.pendingThrows = Append(@, n.g)],
                  [kind |-> "throwSite", goto |-> n.g, try |-> CurrentTry(n.c),
                   call |-> call, args |-> ev.es, from |-> ev.from,
                   bound |-> ev.bound]),
     e |-> RESULT]

\* lines 246-250 of execForeign, ev being the evaluated arguments
callForeign(ev, name) ==
    IF Failed(ev.c) THEN [c |-> ev.c, e |-> RESULT]
    ELSE insertThrowCheck(
        createGoto(freeTempVars(push(ev.c, ExprStmt(CallExpr(Ident(name), ev.es))),
                                ev.es)),
        pos(ev.c), ev)

execForeign(c, name, args) == callForeign(useTempVars(c, args), name)

\* the result is the Context and outerParam, which unshadow needs
shadowVar(c, id, init) ==
    LET r == useTempVar(addScopeVar(c, id), id)
    IN [c |-> assign(r.c, id, init, TRUE).c, outerParam |-> r.e]

unshadow(c, id, outerParam) ==
    freeTempVar(assign(c, id, outerParam, TRUE).c, outerParam)

\* lines 306-310 of insertBranchStart: g is the new Goto and t the
\* evaluated test
insertBranch(t, g) ==
    IF Failed(t.c) THEN [c |-> t.c, g |-> g]
    ELSE [c |-> push(freeTempVar(getForInsertion(t.c, g), t.e), BranchingGotoStmt(t.e, g)),
     g |-> g]

insertBranchStart(c, test) ==
    LET n == createGoto(c)
    IN insertBranch(useTempVar(n.c, UnExpr("!", test)), n.g)

intoBlock(c, name, canContinue) ==
    LET h == IF canContinue THEN createGotoToHere(c) ELSE [c |-> c, g |-> NoGoto]
    IN [h.c EXCEPT !.labelStack = Append(@, [name |-> name, goto |-> h.g])]

RECURSIVE resolveBreaks(_, _, _)
\* resolveBreaks without the test of line 328: every pending break is
\* resolved and removed
resolveBreaks_all(c, name, breaks) ==
    IF Len(breaks) = 0 \/ Failed(c) THEN c
    ELSE resolveBreaks(Goto_resolve(c, Head(breaks).goto), name, Tail(breaks))

\* the filter callback of leaveBlock over the breaks not yet visited
resolveBreaks(c, name, breaks) ==
    IF Len(breaks) = 0 \/ Failed(c) THEN c
    ELSE LET brk == Head(breaks)
             c1 == IF brk.name = name THEN Goto_resolve(c, brk.goto)
                   ELSE [c EXCEPT !.pendingBreaks = Append(@, brk)]
         IN resolveBreaks(c1, name, Tail(breaks))

\* history only: leaveBlock() found the Context c and left the Context r
leftBlock(c, r) ==
    Record(r, [kind |-> "leaveBlock", at |-> pos(c),
               stack |-> <<c.labelStack, r.labelStack>>,
               breaks |-> <<c.pendingBreaks, r.pendingBreaks>>,
               returns |-> <<c.pendingReturns, r.pendingReturns>>,
               throws |-> <<c.pendingThrows, r.pendingThrows>>,
               targets |-> [k \in 1..Len(c.pendingBreaks) |->
                               r.gotos[c.pendingBreaks[k].goto].value]])

leaveBlock(c) ==
    LET n == Len(c.labelStack)
    IN IF n = 0 THEN Throw(c, "Attempted to leave block when there was none.")
       ELSE leftBlock(c, resolveBreaks([c EXCEPT !.labelStack = SubSeq(@, 1, n - 1),
                                                 !.pendingBreaks = <<>>],
                                       c.labelStack[n].name, c.pendingBreaks))

SetMax(S) == CHOOSE m \in S : \A x \in S : x <= m

\* lines 353-357: statements[i].leadingComments = ` i:` for i in hadGotos, in
\* ascending order; every occurrence of one Goto._stmt is the same object
setLeadingComments(c) ==
    [c EXCEPT
       !.stmtComments =
           [j \in 1..Len(c.statements) |->
               IF (j - 1) \in c.hadGotos /\ c.statements[j].type # "GotoStatement"
               THEN j - 1 ELSE c.stmtComments[j]],
       !.gotos =
           [g \in 1..Len(c.gotos) |->
               LET at == {i \in c.hadGotos :
                             /\ i < Len(c.statements)
                             /\ StmtAt(c, i).type = "GotoStatement"
                             /\ StmtAt(c, i).goto = g}
               IN IF at = {} THEN c.gotos[g]
                  ELSE [c.gotos[g] EXCEPT !.leadingComments = SetMax(at)]]]

\* lines 344-357 of leave: resolve what is pending, label the targets
\* lines 350-357: the statement for the jumps to the end, then the labels
labelTargets(c) ==
    setLeadingComments(IF pos(c) \in c.hadGotos THEN push(c, EmptyStmt) ELSE c)

\* leaveJumps without the loop of lines 347-349: the pending returns are
\* left unresolved
leaveJumps_throwsOnly(c) ==
    labelTargets(Record(resolveAll(c, c.pendingThrows),
                        [kind |-> "leave", epilogue |-> pos(c)]))

leaveJumps(c) ==
    labelTargets(Record(resolveAll(resolveAll(c, c.pendingThrows), c.pendingReturns),
                        [kind |-> "leave", epilogue |-> pos(c)]))

RECURSIVE varInits(_, _, _)

\* lines 364-367: the declarator i has an init, and a is its assignment
hoistInit(a, i, inits) ==
    varInits([a.c EXCEPT !.scopeVars[i].init = None], i + 1, Append(inits, a.stmt))

\* the loop of lines 361-369 over the declarators from i on: the Context
\* (with the init of each declarator cleared) and the varInits collected
varInits(c, i, inits) ==
    IF i > Len(c.scopeVars) \/ Failed(c) THEN [c |-> c, inits |-> inits]
    ELSE IF IsNone(c.scopeVars[i].init) THEN varInits(c, i + 1, inits)
    ELSE hoistInit(assign(c, c.scopeVars[i].id, c.scopeVars[i].init, FALSE), i, inits)

\* lines 358-371 of leave: the declaration and the hoisted initializers
\* lines 370-371: v holds the Context and the varInits
unshiftVars(v) ==
    IF Failed(v.c) THEN v.c
    ELSE [v.c EXCEPT
            !.statements = <<VarDeclaration(v.c.scopeVars)>> \o v.inits \o @,
            !.stmtComments = [j \in 1..(1 + Len(v.inits)) |-> NoComment] \o @]

leavePrologue(c) ==
    IF Len(c.scopeVars) = 0 THEN c ELSE unshiftVars(varInits(c, 1, <<>>))

\* leave without the two checks of lines 338-343
leave_unchecked(c) == IF Failed(c) THEN c ELSE leavePrologue(leaveJumps(c))

leave(c) ==
    IF Failed(c) THEN c
    ELSE IF Len(c.labelStack) > 0
    THEN Throw(c, "Attempted to leave the context with non-empty label stack")
    ELSE IF Len(c.pendingBreaks) > 0
    THEN Throw(c, "Attempted to leave the context with unresolved break statements")
    ELSE leavePrologue(leaveJumps(c))

\* ------------------------------------------------------------------------
\* stmtHandlers

stmt_ExpressionStatement(c, node) == transformExpr(c, node.expression).c

stmt_DebuggerStatement(c, node) == push(c, node)

LoopTypes == {"WhileStatement", "DoWhileStatement", "ForStatement", "ForInStatement"}

stmt_LabeledStatement(c, node) ==
    LET c1 == intoBlock(c, node.label.name, node.body.type \in LoopTypes)
    IN leaveBlock(transformStmt(c1, node.body))

stmt_BlockStatement(c, node) == transformStmts(c, node.body)

\* node.label ? node.label.name : ''
LabelName(node) == IF IsNone(node.label) THEN "" ELSE node.label.name

stmt_BreakStatement(c, node) ==
    LET p == insertPendingGoto(c)
    IN Record([p.c EXCEPT !.pendingBreaks =
                              Append(@, [name |-> LabelName(node), goto |-> p.g])],
              [kind |-> "break", at |-> pos(c), name |-> LabelName(node), goto |-> p.g])

stmt_ReturnStatement(c, node) ==
    LET c1 == IF IsNone(node.argument) THEN c
              ELSE assign(c, RESULT, node.argument, TRUE).c
        p == insertPendingGoto(c1)
    IN [p.c EXCEPT !.pendingReturns = Append(@, p.g)]

\* the frames a continue with this name may select
ContinueFrames(c, name) ==
    {i \in 1..Len(c.labelStack) :
        /\ c.labelStack[i].goto # NoGoto
        /\ (c.labelStack[i].name = name \/ name = "")}

\* ContinueStatement with the loop of lines 423-433 running from the bottom
\* of the label stack to the top
stmt_ContinueStatement_outermost(c, node) ==
    LET name == LabelName(node)
        frames == ContinueFrames(c, name)
        first == CHOOSE i \in frames : \A j \in frames : i <= j
    IN IF frames = {}
       THEN Record(Throw(c, "Continue to invalid label"),
                   [kind |-> "invalidContinue", at |-> pos(c), name |-> name,
                    stack |-> c.labelStack])
       ELSE Record(Goto_insert(c, c.labelStack[first].goto),
                   [kind |-> "continue", at |-> pos(c),
                    goto |-> c.labelStack[first].goto,
                    labeled |-> name # "", name |-> name, stack |-> c.labelStack])

\* history only: the events keep the name and the label stack the handler saw
stmt_ContinueStatement(c, node) ==
    LET name == LabelName(node)
        frames == ContinueFrames(c, name)
    IN IF frames = {}
       THEN Record(Throw(c, "Continue to invalid label"),
                   [kind |-> "invalidContinue", at |-> pos(c), name |-> name,
                    stack |-> c.labelStack])
       ELSE LET c1 == Goto_insert(c, c.labelStack[SetMax(frames)].goto)
            IN Record(c1, [kind |-> "continue", at |-> pos(c),
                           goto |-> c.labelStack[SetMax(frames)].goto,
                           labeled |-> name # "", name |-> name,
                           stack |-> c.labelStack])

\* history only: the if statement whose lowering began at the position start
\* and left the Context c
ifLowered(c, start, rejectBranch, fulfill, consEnd, altStart) ==
    Record(c, [kind |-> "if", start |-> start, reject |-> rejectBranch.g,
               consStart |-> pos(rejectBranch.c), consEnd |-> consEnd,
               hasAlt |-> fulfill # NoGoto, fulfill |-> fulfill,
               altStart |-> altStart, end |-> pos(c)])

\* IfStatement with lines 441 and 442 in the other order: the reject branch
\* is resolved before the jump over the alternate is inserted
stmt_IfStatement_rejectFirst(c, node) ==
    LET rejectBranch == insertBranchStart(c, node.test)
        c1 == transformStmt(rejectBranch.c, node.consequent)
    IN IF Thrown(<<rejectBranch.c, c1>>) THEN c1
       ELSE IF ~IsNone(node.alternate)
       THEN LET fulfillBranch == insertPendingGoto(Goto_resolve(c1, rejectBranch.g))
                c2 == fulfillBranch.c
                c3 == transformStmt(c2, node.alternate)
            IN IF Thrown(<<c2, c3>>) THEN c3
               ELSE ifLowered(Goto_resolve(c3, fulfillBranch.g), pos(c), rejectBranch,
                              fulfillBranch.g, pos(c1), pos(c2))
       ELSE ifLowered(Goto_resolve(c1, rejectBranch.g), pos(c), rejectBranch, NoGoto,
                      pos(c1), pos(c1))

stmt_IfStatement(c, node) ==
    LET rejectBranch == insertBranchStart(c, node.test)
        c1 == transformStmt(rejectBranch.c, node.consequent)
    IN IF Thrown(<<rejectBranch.c, c1>>) THEN c1
       ELSE IF ~IsNone(node.alternate)
       THEN LET fulfillBranch == insertPendingGoto(c1)
                c2 == Goto_resolve(fulfillBranch.c, rejectBranch.g)
                c3 == transformStmt(c2, node.alternate)
            IN IF Thrown(<<c2, c3>>) THEN c3
               ELSE ifLowered(Goto_resolve(c3, fulfillBranch.g), pos(c), rejectBranch,
                              fulfillBranch.g, pos(c1), pos(c2))
       ELSE ifLowered(Goto_resolve(c1, rejectBranch.g), pos(c), rejectBranch, NoGoto,
                      pos(c1), pos(c1))

\* the continue handle of the frame on top of the label stack
TopFrameGoto(c) == c.labelStack[Len(c.labelStack)].goto

stmt_WhileStatement(c, node) ==
    LET start == createGotoToHere(c)
        rejectBranch == insertBranchStart(start.c, node.test)
        c1 == intoBlock(rejectBranch.c, "", TRUE)
        c2 == transformStmt(c1, node.body)
        c3 == Goto_insert(c2, start.g)
        c4 == Goto_resolve(c3, rejectBranch.g)
    IN IF Thrown(<<start.c, rejectBranch.c, c1, c2, c3, c4>>) THEN c4
       ELSE Record(leaveBlock(c4),
              [kind |-> "loop", type |-> node.type, start |-> start.g,
               continue |-> TopFrameGoto(c1), bodyStart |-> pos(c1),
               hasTest |-> TRUE, hasUpdate |-> FALSE, update |-> pos(c2),
               backEdge |-> pos(c2), exit |-> pos(c4)])

stmt_DoWhileStatement(c, node) ==
    LET start == createGotoToHere(c)
        c1 == intoBlock(start.c, "", TRUE)
        c2 == transformStmt(c1, node.body)
        rejectBranch == insertBranchStart(c2, node.test)
        c3 == Goto_insert(rejectBranch.c, start.g)
        c4 == Goto_resolve(c3, rejectBranch.g)
    IN IF Thrown(<<start.c, c1, c2, rejectBranch.c, c3, c4>>) THEN c4
       ELSE Record(leaveBlock(c4),
              [kind |-> "loop", type |-> node.type, start |-> start.g,
               continue |-> TopFrameGoto(c1), bodyStart |-> pos(c1),
               hasTest |-> TRUE, hasUpdate |-> FALSE, update |-> pos(c2),
               backEdge |-> pos(rejectBranch.c), exit |-> pos(c4)])

stmt_ForStatement(c, node) ==
    LET c0 == IF IsNone(node.init) THEN c
              ELSE transformStmt(c, IF is(node.init, "VariableDeclaration")
                                    THEN node.init ELSE ExprStmt(node.init))
        start == createGotoToHere(c0)
        hasTest == ~IsNone(node.test)
        rejectBranch == IF hasTest THEN insertBranchStart(start.c, node.test)
                        ELSE [c |-> start.c, g |-> NoGoto]
        c1 == intoBlock(rejectBranch.c, "", TRUE)
        c2 == transformStmt(c1, node.body)
        c3 == IF IsNone(node.update) THEN c2
              ELSE transformStmt(c2, ExprStmt(node.update))
        c4 == Goto_insert(c3, start.g)
        c5 == IF hasTest THEN Goto_resolve(c4, rejectBranch.g) ELSE c4
    IN IF Thrown(<<c0, start.c, rejectBranch.c, c1, c2, c3, c4, c5>>) THEN c5
       ELSE Record(leaveBlock(c5),
              [kind |-> "loop", type |-> node.type, start |-> start.g,
               continue |-> TopFrameGoto(c1), bodyStart |-> pos(c1),
               hasTest |-> hasTest, hasUpdate |-> ~IsNone(node.update),
               update |-> pos(c2), backEdge |-> pos(c3), exit |-> pos(c5)])

stmt_EmptyStatement(c, node) == c

\* history only: what is known of a default clause while the cases are walked
DefaultClause ==
    [isDefault |-> TRUE, testStart |-> -1, bodyStart |-> -1, leave |-> -1,
     reject |-> NoGoto]

RECURSIVE switchCases(_, _, _)

\* switchCases with lines 505 and 506 in the other order: the reject branch
\* is resolved before the jump that leaves the body is inserted
switchCases_rejectFirst(acc, localId, cases) ==
    IF Len(cases) = 0 \/ Failed(acc.c) THEN acc
    ELSE LET switchCase == Head(cases)
         IN IF ~IsNone(switchCase.test)
            THEN LET rejectBranch ==
                         insertBranchStart(acc.c, BinExpr(localId, "===", switchCase.test))
                     c1 == Handle_resolve(rejectBranch.c, acc.prevLeave)
                     c2 == transformStmts(c1, switchCase.consequent)
                     c3 == Goto_resolve(c2, rejectBranch.g)
                     prevLeave == insertPendingGoto(c3)
                 IN IF Thrown(<<rejectBranch.c, c1, c2>>) THEN [acc EXCEPT !.c = c2]
                    ELSE switchCases(
                        [c |-> prevLeave.c, prevLeave |-> prevLeave.g,
                         defaultCase |-> acc.defaultCase,
                         clauses |-> Append(acc.clauses,
                             [isDefault |-> FALSE, testStart |-> pos(acc.c),
                              bodyStart |-> pos(c1), leave |-> pos(c2),
                              reject |-> rejectBranch.g])],
                        localId, Tail(cases))
            ELSE LET from == createGoto(acc.c)
                 IN switchCases(
                        [c |-> from.c, prevLeave |-> from.g,
                         defaultCase |-> [type |-> "DefaultCase", to |-> acc.prevLeave,
                                          consequent |-> switchCase.consequent,
                                          from |-> from.g,
                                          index |-> Len(acc.clauses) + 1],
                         clauses |-> Append(acc.clauses, DefaultClause)],
                        localId, Tail(cases))

\* node.cases.reduce(...) over the cases that remain; acc holds the Context,
\* prevLeave, defaultCase and (history only) the clauses seen
switchCases(acc, localId, cases) ==
    IF Len(cases) = 0 \/ Failed(acc.c) THEN acc
    ELSE LET switchCase == Head(cases)
         IN IF ~IsNone(switchCase.test)
            THEN LET rejectBranch ==
                         insertBranchStart(acc.c, BinExpr(localId, "===", switchCase.test))
                     c1 == Handle_resolve(rejectBranch.c, acc.prevLeave)
                     c2 == transformStmts(c1, switchCase.consequent)
                     prevLeave == insertPendingGoto(c2)
                     c3 == Goto_resolve(prevLeave.c, rejectBranch.g)
                 IN IF Thrown(<<rejectBranch.c, c1, c2>>) THEN [acc EXCEPT !.c = c2]
                    ELSE switchCases(
                        [c |-> c3, prevLeave |-> prevLeave.g,
                         defaultCase |-> acc.defaultCase,
                         clauses |-> Append(acc.clauses,
                             [isDefault |-> FALSE, testStart |-> pos(acc.c),
                              bodyStart |-> pos(c1), leave |-> pos(c2),
                              reject |-> rejectBranch.g])],
                        localId, Tail(cases))
            ELSE LET from == createGoto(acc.c)
                 IN switchCases(
                        [c |-> from.c, prevLeave |-> from.g,
                         defaultCase |-> [type |-> "DefaultCase", to |-> acc.prevLeave,
                                          consequent |-> switchCase.consequent,
                                          from |-> from.g,
                                          index |-> Len(acc.clauses) + 1],
                         clauses |-> Append(acc.clauses, DefaultClause)],
                        localId, Tail(cases))

\* lines 523-525, c being the Context once the body of the default clause, if
\* any, is lowered
switchLeave(c, r, event) ==
    Record(leaveBlock(Handle_resolve(c, r.prevLeave)),
           [event EXCEPT !.exit = pos(c), !.testsEnd = pos(r.c)])

\* lines 516-522: the default clause, r being the result of the reduce and c3
\* the Context at the start of the body of the default clause
switchDefault(c3, c4, r, event) ==
    IF Failed(c4) THEN c4
    ELSE switchLeave(Goto_insert(c4, r.defaultCase.from), r,
                [event EXCEPT !.clauses =
                    [r.clauses EXCEPT ![r.defaultCase.index] =
                        [@ EXCEPT !.bodyStart = pos(c3), !.leave = pos(c4)]]])

\* lines 514-525: what follows the reduce, whose result is r
switchEnd(c2, r, event) ==
    IF Failed(c2) THEN c2
    ELSE IF ~IsNone(r.defaultCase)
    THEN switchDefault(Handle_resolve(c2, r.defaultCase.to),
                       transformStmts(Handle_resolve(c2, r.defaultCase.to),
                                      r.defaultCase.consequent),
                       r, event)
    ELSE switchLeave(c2, r, [event EXCEPT !.clauses = r.clauses])

\* lines 493-514: the reduce over the cases, t being the evaluated discriminant
switchTests(r, localId, event) == switchEnd(freeTempVar(r.c, localId), r, event)

stmt_SwitchStatement(c, node) ==
    LET t == useTempVar(intoBlock(c, "", FALSE), node.discriminant)
    IN switchTests(switchCases([c |-> t.c, prevLeave |-> NoGoto, defaultCase |-> None,
                                clauses |-> <<>>], t.e, node.cases),
                   t.e,
                   [kind |-> "switch", localId |-> t.e, bound |-> pos(t.c),
                    testsEnd |-> -1, clauses |-> <<>>, exit |-> -1])

RECURSIVE declare(_, _)
\* node.declarations.forEach(...) over the declarators that remain
declare(c, declarations) ==
    IF Len(declarations) = 0 \/ Failed(c) THEN c
    ELSE LET decl == Head(declarations)
             c1 == addScopeVar(c, decl.id)
             c2 == IF IsNone(decl.init) THEN c1
                   ELSE assign(c1, decl.id, decl.init, TRUE).c
         IN declare(c2, Tail(declarations))

stmt_VariableDeclaration(c, node) == declare(c, node.declarations)

stmt_FunctionDeclaration(c, node) ==
    Record(setScopeVarInit(c, node.id, [node EXCEPT !.type = "FunctionExpression"]),
           [kind |-> "functionDeclaration", name |-> node.id.name])

stmt_ThrowStatement(c, node) ==
    LET c1 == assign(c, ERROR, node.argument, TRUE).c
        p == insertPendingGoto(c1)
        c2 == [p.c EXCEPT !.pendingThrows = Append(@, p.g)]
    IN Record(c2, [kind |-> "throwSite", goto |-> p.g, try |-> CurrentTry(c2),
                   call |-> -1, args |-> <<>>, from |-> -1, bound |-> <<>>])

\* lowerFinalizer with the finalizer as the landing pad of the throws that
\* are pending after the block and the handler
lowerFinalizer_landing(c7, node, event) ==
    IF IsNone(node.finalizer) THEN c7
    ELSE LET c8 == transformStmt([resolveAll(c7, c7.pendingThrows) EXCEPT
                                      !.pendingThrows = <<>>],
                                 node.finalizer)
         IN Record(c8, [event EXCEPT !.from = pos(c7), !.to = pos(c8),
                                     !.returns = c7.pendingReturns,
                                     !.throws = c7.pendingThrows,
                                     !.breaks = c7.pendingBreaks])

\* lines 568-570, c7 being the Context after the block and the handler;
\* history only: the event keeps where the finalizer was lowered and what
\* was pending when its lowering began
lowerFinalizer(c7, node, event) ==
    IF IsNone(node.finalizer) THEN c7
    ELSE LET c8 == transformStmt(c7, node.finalizer)
         IN Record(c8, [event EXCEPT !.from = pos(c7), !.to = pos(c8),
                                     !.returns = c7.pendingReturns,
                                     !.throws = c7.pendingThrows,
                                     !.breaks = c7.pendingBreaks])

stmt_TryStatement(c, node) ==
    LET hasHandler == ~IsNone(node.handler)
        \* history only: name this try by the index of its "try" event
        c0 == IF hasHandler
              THEN [Record(c, [kind |-> "try"]) EXCEPT
                       !.tryStack = Append(@, Len(c.events) + 1)]
              ELSE c
        b == transformStmt(c0, node.block)
        c1 == IF hasHandler THEN [b EXCEPT !.tryStack = c.tryStack] ELSE b
        caught == hasHandler /\ Len(c1.pendingThrows) > 0
        allGood == insertPendingGoto(c1)
        c2 == resolveAll(allGood.c, allGood.c.pendingThrows)
        c3 == Record([c2 EXCEPT !.pendingThrows = <<>>],
                     [kind |-> "catch", try |-> Len(c.events) + 1, landing |-> pos(c2)])
        outerVar == shadowVar(c3, node.handler.param, ERROR)
        c4 == assign(outerVar.c, ERROR, Undef, TRUE).c
        c5 == transformStmt(c4, node.handler.body)
        c6 == unshadow(c5, node.handler.param, outerVar.outerParam)
        c7 == IF caught THEN Goto_resolve(c6, allGood.g) ELSE c1
    IN IF Thrown(<<c0, b, c1>>) THEN c1
       ELSE IF caught /\ Thrown(<<allGood.c, c2, c3, outerVar.c, c4, c5, c6>>) THEN c6
       ELSE lowerFinalizer(c7, node,
                [kind |-> "finally", finalizer |-> node.finalizer, start |-> pos(c),
                 firstGoto |-> Len(c.gotos) + 1, blockEnd |-> pos(c1),
                 caught |-> caught, allGood |-> IF caught THEN allGood.g ELSE NoGoto,
                 from |-> -1, to |-> -1, returns |-> <<>>, throws |-> <<>>,
                 breaks |-> <<>>])

stmt_WithStatement(c, node) == Throw(c, "Why?!!!")

\* stmtHandlers[stmt.type](this, stmt)
stmtHandler(c, stmt) ==
    CASE stmt.type = "ExpressionStatement" -> stmt_ExpressionStatement(c, stmt)
      [] stmt.type = "DebuggerStatement" -> stmt_DebuggerStatement(c, stmt)
      [] stmt.type = "LabeledStatement" -> stmt_LabeledStatement(c, stmt)
      [] stmt.type = "BlockStatement" -> stmt_BlockStatement(c, stmt)
      [] stmt.type = "BreakStatement" -> stmt_BreakStatement(c, stmt)
      [] stmt.type = "ReturnStatement" -> stmt_ReturnStatement(c, stmt)
      [] stmt.type = "ContinueStatement" -> stmt_ContinueStatement(c, stmt)
      [] stmt.type = "IfStatement" -> stmt_IfStatement(c, stmt)
      [] stmt.type = "WhileStatement" -> stmt_WhileStatement(c, stmt)
      [] stmt.type = "DoWhileStatement" -> stmt_DoWhileStatement(c, stmt)
      [] stmt.type = "ForStatement" -> stmt_ForStatement(c, stmt)
      [] stmt.type = "EmptyStatement" -> stmt_EmptyStatement(c, stmt)
      [] stmt.type = "SwitchStatement" -> stmt_SwitchStatement(c, stmt)
      [] stmt.type = "VariableDeclaration" -> stmt_VariableDeclaration(c, stmt)
      [] stmt.type = "FunctionDeclaration" -> stmt_FunctionDeclaration(c, stmt)
      [] stmt.type = "ThrowStatement" -> stmt_ThrowStatement(c, stmt)
      [] stmt.type = "TryStatement" -> stmt_TryStatement(c, stmt)
      [] stmt.type = "WithStatement" -> stmt_WithStatement(c, stmt)
      [] OTHER -> Throw(c, "Unhandled type " \o stmt.type \o ".")

\* stmts.forEach(stmt => context.transformStmt(stmt))
transformStmts(c, stmts) ==
    IF Len(stmts) = 0 \/ Failed(c) THEN c
    ELSE transformStmts(transformStmt(c, Head(stmts)), Tail(stmts))

\* ------------------------------------------------------------------------
\* exprHandlers: the result is the Context and the lowered expression

expr_Literal(c, node) == [c |-> c, e |-> node]

expr_Identifier(c, node) == [c |-> c, e |-> node]

\* node.body.body is the statement array of funcContext as leave() labels it;
\* the array leave() builds with the declaration in front is another object
\* lines 591-592: left is funcContext after leave(), body the array it labelled
\* history only: what the claims read of the Context in which a function
\* expression stands
Frame(c) ==
    [statements |-> c.statements, stmtComments |-> c.stmtComments,
     varCounter |-> c.varCounter, freeVars |-> c.freeVars,
     labelStack |-> c.labelStack, pendingBreaks |-> c.pendingBreaks,
     pendingReturns |-> c.pendingReturns, pendingThrows |-> c.pendingThrows,
     gotos |-> c.gotos, hadGotos |-> c.hadGotos]

\* c is the enclosing Context when the handler is called and c1 when it
\* returns; history only: the "function" event keeps both
functionLowered(c, c1, node, left, body) ==
    [c |-> IF Failed(left) THEN Throw(c1, left.error)
           ELSE Record(c1, [kind |-> "function", before |-> Frame(c),
                            after |-> Frame(c1)]),
     e |-> [node EXCEPT !.body.body = IF Failed(left) THEN @ ELSE body,
                        !.funcContext = left]]

\* FunctionExpression with the body lowered into the enclosing Context as
\* well
expr_FunctionExpression_inline(c, node) ==
    LET funcContext == transformStmt(NewContext, node.body)
    IN functionLowered(c, transformStmt(c, node.body), node, leave(funcContext),
                       leaveJumps(funcContext).statements)

expr_FunctionExpression(c, node) ==
    LET funcContext == transformStmt(NewContext, node.body)
    IN functionLowered(c, c, node, leave(funcContext), leaveJumps(funcContext).statements)

\* node.computed ? property : build.literal(property.name)
PropertyKey(member) ==
    IF member.computed THEN member.property ELSE Literal(member.property.name)

expr_MemberExpression(c, node) ==
    execForeign(c, "GET_PROPERTY", <<node.object, PropertyKey(node)>>)

expr_AssignmentExpression(c, node) ==
    IF is(node.left, "MemberExpression")
    THEN execForeign(c, "SET_PROPERTY",
                     <<node.left.object, PropertyKey(node.left), node.right>>)
    ELSE [c |-> assign(c, node.left, node.right, TRUE).c, e |-> node.left]

\* history only: the method call whose CALL has just been emitted
methodCalled(r, thisExpr, bound) ==
    [r EXCEPT !.c = Record(@, [kind |-> "methodCall", thisExpr |-> thisExpr,
                               bound |-> bound, call |-> pos(@) - 2])]

\* lines 618-622 with a member callee, thisExpr being the evaluated receiver
callMethod(thisExpr, node) ==
    IF Failed(thisExpr.c) THEN thisExpr
    ELSE methodCalled(execForeign(thisExpr.c, "CALL",
                             <<[node.callee EXCEPT !.object = thisExpr.e], thisExpr.e>>
                                 \o node.arguments),
                 thisExpr.e, pos(thisExpr.c))

expr_CallExpression(c, node) ==
    IF is(node.callee, "MemberExpression")
    THEN callMethod(useTempVar(c, node.callee.object), node)
    ELSE execForeign(c, "CALL", <<node.callee, Undef>> \o node.arguments)

expr_UnaryExpression(c, node) ==
    LET arg == useTempVar(c, node.argument)
    IN [c |-> freeTempVar(arg.c, arg.e), e |-> UnExpr(node.operator, arg.e)]

expr_BinaryExpression(c, node) ==
    LET left == useTempVar(c, node.left)
        right == useTempVar(left.c, node.right)
        c1 == freeTempVar(freeTempVar(right.c, left.e), right.e)
    IN IF Thrown(<<left.c, right.c>>) THEN right
       ELSE [c |-> Record(c1, [kind |-> "binary", left |-> left.e,
                               leftEnd |-> pos(left.c), rightEnd |-> pos(right.c)]),
             e |-> BinExpr(left.e, node.operator, right.e)]

\* exprHandler with no check of line 382: an expression without a handler is
\* returned as it is
exprHandler_lenient(c, expr) ==
    CASE expr.type = "FunctionExpression" -> expr_FunctionExpression(c, expr)
      [] expr.type = "MemberExpression" -> expr_MemberExpression(c, expr)
      [] expr.type = "AssignmentExpression" -> expr_AssignmentExpression(c, expr)
      [] expr.type = "CallExpression" -> expr_CallExpression(c, expr)
      [] expr.type = "UnaryExpression" -> expr_UnaryExpression(c, expr)
      [] expr.type = "BinaryExpression" -> expr_BinaryExpression(c, expr)
      [] OTHER -> [c |-> c, e |-> expr]

\* exprHandlers[expr.type](this, expr)
exprHandler(c, expr) ==
    CASE expr.type = "Literal" -> expr_Literal(c, expr)
      [] expr.type = "Identifier" -> expr_Identifier(c, expr)
      [] expr.type = "FunctionExpression" -> expr_FunctionExpression(c, expr)
      [] expr.type = "MemberExpression" -> expr_MemberExpression(c, expr)
      [] expr.type = "AssignmentExpression" -> expr_AssignmentExpression(c, expr)
      [] expr.type = "CallExpression" -> expr_CallExpression(c, expr)
      [] expr.type = "UnaryExpression" -> expr_UnaryExpression(c, expr)
      [] expr.type = "BinaryExpression" -> expr_BinaryExpression(c, expr)
      [] OTHER -> [c |-> Throw(c, "Unhandled type " \o expr.type \o "."), e |-> expr]

\* what transformStmt returns after handlers[stmt.type](this, stmt) left c1.
\* The "stmt" event is the history of this handler invocation.
stmtResult(c, c1, stmt) ==
    [c |-> IF c1.error # "" THEN c1
           ELSE Record(c1, [kind |-> "stmt", type |-> stmt.type, node |-> stmt,
                            from |-> pos(c), to |-> pos(c1),
                            lockedBefore |-> Locked(c), lockedAfter |-> Locked(c1)]),
     e |-> None]

\* transformStmt and transformExpr, which call each other through the
\* handlers, as one recursive operator; handlers names the table.  A thrown
\* error unwinds the walk: nothing more is lowered once c has failed.
transform(c, node, handlers) ==
    IF c.error # "" THEN [c |-> c, e |-> node]
    ELSE IF handlers = "stmtHandlers" THEN stmtResult(c, stmtHandler(c, node), node)
    ELSE exprHandler(c, node)

\* ------------------------------------------------------------------------
\* The programs lowered.  Each is written beside its JavaScript text.

a == Ident("a")

b == Ident("b")

f == Ident("f")

o == Ident("o")

x == Ident("x")

\* continue;
Continue == ContinueStmt(None)

\* break;
Break == BreakStmt(None)

\* f();
CallF == ExprStmt(CallExpr(f, <<>>))

\* f(a);
CallFA == ExprStmt(CallExpr(f, <<a>>))

\* o.m();
MethodCall == ExprStmt(CallExpr(MemberExpr(o, Ident("m"), FALSE), <<>>))

\* o.m(x);
MethodCallX == ExprStmt(CallExpr(MemberExpr(o, Ident("m"), FALSE), <<x>>))

\* a + b;
Sum == ExprStmt(BinExpr(a, "+", b))

\* x = o[a];
ReadMember == ExprStmt(AssignExpr(x, "=", MemberExpr(o, a, TRUE)))

\* o.p = !a;
WriteMember ==
    ExprStmt(AssignExpr(MemberExpr(o, Ident("p"), FALSE), "=", UnExpr("!", a)))

\* i = i + 1
Increment == AssignExpr(Ident("i"), "=", BinExpr(Ident("i"), "+", Literal("1")))

\* while (a) { continue; }
WhileContinue == WhileStmt(a, BlockStmt(<<Continue>>))

\* while (a) { continue; continue; }
WhileContinueTwice == WhileStmt(a, BlockStmt(<<Continue, Continue>>))

\* while (a) { if (b) break; f(); }
WhileBreak == WhileStmt(a, BlockStmt(<<IfStmt(b, Break, None), CallF>>))

\* do { if (b) continue; } while (a);
DoWhileContinue == DoWhileStmt(BlockStmt(<<IfStmt(b, Continue, None)>>), a)

\* for (;; i = i + 1) { continue; }
ForContinue == ForStmt(None, None, Increment, BlockStmt(<<Continue>>))

\* for (var i = 0; i < a; i = i + 1) { if (b) continue; }
ForLoop ==
    ForStmt(VarDeclaration(<<VarDeclarator(Ident("i"), Literal("0"))>>),
            BinExpr(Ident("i"), "<", a), Increment,
            BlockStmt(<<IfStmt(b, Continue, None)>>))

\* for (;;) { continue; }
ForEver == ForStmt(None, None, None, BlockStmt(<<Continue>>))

\* L: for (x = a; b;) { continue L; }
LabeledFor ==
    LabeledStmt("L", ForStmt(AssignExpr(x, "=", a), b, None,
                             BlockStmt(<<ContinueStmt(Ident("L"))>>)))

\* L: { break L; }
LabeledBlock == LabeledStmt("L", BlockStmt(<<BreakStmt(Ident("L"))>>))

\* if (a) f(); else debugger;
IfElse == IfStmt(a, CallF, DebuggerStmt)

\* try { f(); } catch (e) { f(a); }
TryCatch ==
    TryStmt(BlockStmt(<<CallF>>), CatchClause(Ident("e"), BlockStmt(<<CallFA>>)), None)

\* try { throw a; } catch (e) { } finally { ; }
TryThrow ==
    TryStmt(BlockStmt(<<ThrowStmt(a)>>), CatchClause(Ident("e"), BlockStmt(<<>>)),
            BlockStmt(<<EmptyStmt>>))

\* try { try { f(); } finally { } } catch (e) { throw e; }
TryNested ==
    TryStmt(BlockStmt(<<TryStmt(BlockStmt(<<CallF>>), None, BlockStmt(<<>>))>>),
            CatchClause(Ident("e"), BlockStmt(<<ThrowStmt(Ident("e"))>>)), None)

\* switch (x) { case 1: f(a); case 2: }
SwitchCall ==
    SwitchStmt(x, <<SwitchCase(Literal("1"), <<CallFA>>), SwitchCase(Literal("2"), <<>>)>>)

\* switch (x) { case 1: break; default: f(); case a: }
SwitchDefault ==
    SwitchStmt(x, <<SwitchCase(Literal("1"), <<Break>>), SwitchCase(None, <<CallF>>),
                    SwitchCase(a, <<>>)>>)

\* switch (x) { default: f(); case 1: break; }
SwitchDefaultFirst ==
    SwitchStmt(x, <<SwitchCase(None, <<CallF>>), SwitchCase(Literal("1"), <<Break>>)>>)

\* switch (x) { case 1: f(); break; default: f(); }
SwitchDefaultLast ==
    SwitchStmt(x, <<SwitchCase(Literal("1"), <<CallF, Break>>), SwitchCase(None, <<CallF>>)>>)

\* try { f(); } catch (e) { try { throw e; } catch (e) { } }
TryInCatch ==
    TryStmt(BlockStmt(<<CallF>>),
            CatchClause(Ident("e"), BlockStmt(
                <<TryStmt(BlockStmt(<<ThrowStmt(Ident("e"))>>),
                          CatchClause(Ident("e"), BlockStmt(<<>>)), None)>>)),
            None)

\* while (a) { switch (x) { case 1: continue; case 2: continue; case 3: continue; } }
WhileSwitch ==
    WhileStmt(a, BlockStmt(<<SwitchStmt(x,
        <<SwitchCase(Literal("1"), <<Continue>>),
          SwitchCase(Literal("2"), <<Continue>>),
          SwitchCase(Literal("3"), <<Continue>>)>>)>>))

\* var v = a, w;
VarDecl ==
    VarDeclaration(<<VarDeclarator(Ident("v"), a), VarDeclarator(Ident("w"), None)>>)

\* function g() { return o.p; }
FunctionG == FunctionDecl("g", <<ReturnStmt(MemberExpr(o, Ident("p"), FALSE))>>)

\* x = function () { var v = 1; while (a) { break; } };
FunctionX ==
    ExprStmt(AssignExpr(x, "=", FunctionExpr(
        <<VarDeclaration(<<VarDeclarator(Ident("v"), Literal("1"))>>),
          WhileStmt(a, BlockStmt(<<Break>>))>>)))

\* function h() { function k() { return; } }
FunctionH == FunctionDecl("h", <<FunctionDecl("k", <<ReturnStmt(None)>>)>>)

\* L: { continue L; }
LabeledContinue == LabeledStmt("L", BlockStmt(<<ContinueStmt(Ident("L"))>>))

\* while (a) { x = function () { continue; }; }
FunctionContinue ==
    WhileStmt(a, BlockStmt(<<ExprStmt(AssignExpr(x, "=", FunctionExpr(<<Continue>>)))>>))

\* while (a) { do { continue; } while (b); }
NestedContinue == WhileStmt(a, BlockStmt(<<DoWhileStmt(BlockStmt(<<Continue>>), b)>>))

\* x = function () { break; };
FunctionBreak == ExprStmt(AssignExpr(x, "=", FunctionExpr(<<Break>>)))

\* L: { break; }
LabeledBreak == LabeledStmt("L", BlockStmt(<<Break>>))

\* return a;
Return == ReturnStmt(a)

\* throw /re/;
ThrowRegExp == ThrowStmt(RegExpLiteral("re"))

\* with (o) { }
With == WithStmt(o, BlockStmt(<<>>))

\* try { f(); } catch (e) { throw e; } finally { debugger; }
TryFinally ==
    TryStmt(BlockStmt(<<CallF>>),
            CatchClause(Ident("e"), BlockStmt(<<ThrowStmt(Ident("e"))>>)),
            BlockStmt(<<DebuggerStmt>>))

\* while (a) { try { if (b) break; if (a) continue; return; } finally { debugger; } }
LoopTryFinally ==
    WhileStmt(a, BlockStmt(<<TryStmt(
        BlockStmt(<<IfStmt(b, Break, None), IfStmt(a, Continue, None), ReturnStmt(None)>>),
        None, BlockStmt(<<DebuggerStmt>>))>>))

\* L: while (a) { switch (x) { case 1: break L; case 2: break; } }
BreakThrough ==
    LabeledStmt("L", WhileStmt(a, BlockStmt(<<SwitchStmt(x,
        <<SwitchCase(Literal("1"), <<BreakStmt(Ident("L"))>>),
          SwitchCase(Literal("2"), <<Break>>)>>)>>)))

\* while (a) { if (b) break; f(); x = function () { if (a) return; throw a; }; return; }
FunctionInLoop ==
    WhileStmt(a, BlockStmt(
        <<IfStmt(b, Break, None), CallF,
          ExprStmt(AssignExpr(x, "=", FunctionExpr(
              <<IfStmt(a, ReturnStmt(None), None), ThrowStmt(a)>>))),
          ReturnStmt(None)>>))

\* GOTO(5);
GotoCall == ExprStmt(CallExpr(Ident("GOTO"), <<Literal("5")>>))

\* if (a) GOTO(5);
BranchingGotoCall == IfStmt(a, GotoCall, None)

\* x = this;
ThisAssign == ExprStmt(AssignExpr(x, "=", ThisExpr))

\* if (a && b) f();
IfLogical == IfStmt(LogicalExpr(a, "&&", b), CallF, None)

\* for (x in o) { }
ForIn == ForInStmt(x, o, BlockStmt(<<>>))

\* function w() { with (o) { } }
FunctionWith == FunctionDecl("w", <<With>>)

\* try { } catch (e) { x = this; }
CatchThis ==
    TryStmt(BlockStmt(<<>>), CatchClause(Ident("e"), BlockStmt(<<ThisAssign>>)), None)

\* the statements a program is made of
Stmts ==
    <<CallF, MethodCall, MethodCallX, Sum, ReadMember, WriteMember,
      WhileContinue, WhileContinueTwice, WhileBreak, DoWhileContinue,
      ForContinue, ForLoop, ForEver, LabeledFor, LabeledBlock, IfElse,
      TryCatch, TryThrow, TryNested, SwitchCall, SwitchDefault, WhileSwitch,
      VarDecl, FunctionG, FunctionX, FunctionH, LabeledContinue, FunctionContinue,
      NestedContinue, FunctionBreak, LabeledBreak, Return, ThrowRegExp, With,
      ThisAssign, IfLogical, ForIn, FunctionWith, CatchThis, GotoCall,
      BranchingGotoCall, TryFinally, LoopTryFinally, BreakThrough, FunctionInLoop,
      SwitchDefaultFirst, SwitchDefaultLast, TryInCatch,
      Break, Continue, DebuggerStmt, EmptyStmt>>

\* ------------------------------------------------------------------------
\* The main program (lines 642-652): parse, lower each statement of the
\* program body in order, leave the context, write the output.

Init ==
    /\ ast = <<>>
    /\ context = addScopeVar(addScopeVar(NewContext, ERROR), RESULT)
    /\ pc = "lowering"

\* one iteration of ast.body.forEach(node => context.transformStmt(node))
Transform(node) ==
    /\ pc = "lowering"
    /\ ast' = Append(ast, node)
    /\ context' = transformStmt(context, node)
    /\ pc' = IF Failed(context') THEN "failed" ELSE "lowering"

TransformStmt ==
    /\ Len(ast) < MaxTop
    /\ \E i \in 1..Len(Stmts) : Transform(Stmts[i])

\* context.leave() after the last statement
Leave ==
    /\ pc = "lowering"
    /\ context' = leave(context)
    /\ pc' = IF Failed(context') THEN "failed" ELSE "done"
    /\ UNCHANGED ast

Next == TransformStmt \/ Leave

Spec == Init /\ [][Next]_vars

\* ------------------------------------------------------------------------
\* Switch statements in every shape: the program of SwitchSpec is an optional
\* first statement followed by one switch.

\* the bodies a clause may have:  (nothing)  |  break;  |  f(a);
ClauseBodies == <<<<>>, <<Break>>, <<CallFA>>>>

\* a clause is named by a number: 1..3 a case with the body of that number,
\* 4..6 the default clause with body number - 3
ClauseCodes == 1..(2 * Len(ClauseBodies))

IsDefaultCode(code) == code > Len(ClauseBodies)

\* the k-th clause of a switch:  case <k>: body   or   default: body
ClauseOf(code, k) ==
    IF IsDefaultCode(code) THEN SwitchCase(None, ClauseBodies[code - Len(ClauseBodies)])
    ELSE SwitchCase(Literal(ToString(k)), ClauseBodies[code])

\* sequences of clauses with at most one default clause
SwitchShapes ==
    {shape \in UNION {[1..n -> ClauseCodes] : n \in 0..MaxCases} :
        Cardinality({k \in DOMAIN shape : IsDefaultCode(shape[k])}) <= 1}

\* switch (x) { <clauses of shape> }
SwitchOf(shape) == SwitchStmt(x, [k \in DOMAIN shape |-> ClauseOf(shape[k], k)])

\* what may precede the switch
Prefixes == <<MethodCallX, TryCatch, VarDecl>>

TransformPrefix ==
    /\ Len(ast) = 0
    /\ \E i \in 1..Len(Prefixes) : Transform(Prefixes[i])

TransformSwitch ==
    /\ \A i \in 1..Len(ast) : ast[i].type # "SwitchStatement"
    /\ \E shape \in SwitchShapes : Transform(SwitchOf(shape))

SwitchNext == TransformPrefix \/ TransformSwitch \/ Leave

SwitchSpec == Init /\ [][SwitchNext]_vars

\* ------------------------------------------------------------------------
\* The Goto objects by themselves: the handlers make a Goto, insert it and
\* resolve it in any order and any number of times.  In GotoSpec ast is the
\* sequence of the calls made.

\* one call on a Goto object g that leaves the Context c1
Call(method, g, c1) ==
    /\ pc = "lowering"
    /\ Len(ast) < MaxCalls
    /\ ast' = Append(ast, [type |-> method, goto |-> g])
    /\ context' = c1
    /\ pc' = IF Failed(c1) THEN "failed" ELSE "lowering"

\* context._createGoto()
CreateGoto == Call("_createGoto", Len(context.gotos) + 1, createGoto(context).c)

\* goto.insert()
InsertGoto == \E g \in 1..Len(context.gotos) : Call("insert", g, Goto_insert(context, g))

\* goto.resolve()
ResolveGoto == \E g \in 1..Len(context.gotos) : Call("resolve", g, Goto_resolve(context, g))

GotoNext == CreateGoto \/ InsertGoto \/ ResolveGoto

GotoSpec == Init /\ [][GotoNext]_vars

\* ------------------------------------------------------------------------
\* Reading the lowered statements

\* the events of one kind in the history of c
EventsOf(c, kind) == {i \in 1..Len(c.events) : c.events[i].kind = kind}

\* stmt is `id = ...`
AssignsTo(stmt, id) ==
    /\ stmt.type = "ExpressionStatement"
    /\ stmt.expression.type = "AssignmentExpression"
    /\ stmt.expression.left = id

\* no statement at the positions from..to-1 assigns to id
Intact(c, id, from, to) == \A p \in from..(to - 1) : ~AssignsTo(StmtAt(c, p), id)

\* the Goto object of a jump statement (NoGoto: not a jump)
GotoOf(stmt) ==
    IF stmt.type = "GotoStatement" THEN stmt.goto
    ELSE IF stmt.type = "IfStatement" THEN stmt.consequent.goto
    ELSE NoGoto

\* the target of the Goto object g
Target(c, g) == c.gotos[g].value

\* the label the j-th statement of the output carries (leadingComments)
LabelOf(c, j) ==
    IF c.statements[j].type = "GotoStatement"
    THEN c.gotos[c.statements[j].goto].leadingComments
    ELSE c.stmtComments[j]

\* the statements of the output that carry label t
Labeled(c, t) == {j \in 1..Len(c.statements) : LabelOf(c, j) = t}

\* the final position, where leave() resolves what is still pending
Epilogue(c) == c.events[CHOOSE i \in EventsOf(c, "leave") : TRUE].epilogue

\* ------------------------------------------------------------------------
\* The claims.  Each property is stated of one Context c and then claimed of
\* the Context of the program.  Positions recorded in the history are those
\* of the lowered list, so a property that reads statements by position is
\* claimed while pc = "lowering", before leave() puts the declaration in front.
\* Nothing is claimed of a program whose lowering threw (pc = "failed").

NoDanglingJumps(c) ==
    \A j \in 1..Len(c.statements) :
        LET g == GotoOf(c.statements[j])
        IN g # NoGoto =>
             /\ Target(c, g) # Undefined
             /\ Cardinality(Labeled(c, Target(c, g))) = 1

\* C1  No dangling jumps: once leave() has completed, every GOTO of the
\* output (plain or the consequent of a branch) has a numeric target, and
\* exactly one statement of the output carries that target as its label.
C1_NoDanglingJumps == pc = "done" => NoDanglingJumps(context)

\* the landing pad of the handler of try statement t (Undefined: none emitted)
Landing(c, t) ==
    LET cs == {i \in EventsOf(c, "catch") : c.events[i].try = t}
    IN IF cs = {} THEN Undefined ELSE c.events[CHOOSE i \in cs : TRUE].landing

NearestEnclosingCatch(c) ==
    \A i \in EventsOf(c, "throwSite") :
        LET e == c.events[i]
        IN Target(c, e.goto) = IF e.try = 0 THEN Epilogue(c) ELSE Landing(c, e.try)

\* C2  Nearest enclosing catch: the jump of every throw-check and of every
\* throw statement is resolved to the landing pad of the innermost try with a
\* handler whose block contains it, and to the final position if there is
\* none; a throw site before a try statement never reaches that try's handler.
C2_NearestEnclosingCatch == pc = "done" => NearestEnclosingCatch(context)

ReceiverSurvives(c) ==
    \A i \in EventsOf(c, "methodCall") :
        LET e == c.events[i]
        IN isTempVar(e.thisExpr) =>
             /\ AssignsTo(StmtAt(c, e.bound - 1), e.thisExpr)
             /\ Intact(c, e.thisExpr, e.bound, e.call)
             /\ StmtAt(c, e.call).expression.arguments[2] = e.thisExpr

\* C3  The receiver of a method call survives into the call: the receiver is
\* bound to a temporary once, nothing emitted between that binding and the
\* CALL statement assigns to the temporary, whatever the arguments are, and
\* the temporary is CALL's second argument.
C3_ReceiverSurvives == pc = "lowering" => ReceiverSurvives(context)

\* the clauses of a switch that have a test, and its default clauses
TestClauses(e) == {k \in 1..Len(e.clauses) : ~e.clauses[k].isDefault}

DefaultClauses(e) == {k \in 1..Len(e.clauses) : e.clauses[k].isDefault}

SetMin(S) == CHOOSE m \in S : \A k \in S : m <= k

\* the position after the last case test of a switch
LastTestEnd(e) ==
    IF TestClauses(e) = {} THEN e.bound
    ELSE e.clauses[SetMax(TestClauses(e))].bodyStart

\* the statements at from..to-1 hold a comparison  id === ...
ComparesWith(c, id, from, to) ==
    \E p \in from..(to - 1) :
        LET stmt == StmtAt(c, p)
        IN /\ stmt.type = "ExpressionStatement"
           /\ stmt.expression.type = "AssignmentExpression"
           /\ stmt.expression.right.type = "BinaryExpression"
           /\ stmt.expression.right.operator = "==="
           /\ stmt.expression.right.left = id

DiscriminantIntact(c) ==
    \A i \in EventsOf(c, "switch") :
        LET e == c.events[i]
        IN isTempVar(e.localId) =>
             /\ AssignsTo(StmtAt(c, e.bound - 1), e.localId)
             /\ \A k \in TestClauses(e) :
                    ComparesWith(c, e.localId, e.clauses[k].testStart,
                                 e.clauses[k].bodyStart)
             /\ Intact(c, e.localId, e.bound, LastTestEnd(e))

\* C4  The discriminant of a switch is bound once and stays intact: it is
\* assigned to one temporary before the first case test, every case test
\* compares that temporary with ===, and nothing emitted for a case test or a
\* case body up to the last case test assigns to the temporary.
C4_DiscriminantIntact == pc = "lowering" => DiscriminantIntact(context)

BalancedTemps(c) ==
    \A i \in EventsOf(c, "stmt") : c.events[i].lockedBefore = c.events[i].lockedAfter

\* C5  Balanced temps: every invocation of a statement handler leaves the
\* number of locked temporaries (varCounter - freeVars.length) as it found it.
C5_BalancedTemps == pc # "failed" => BalancedTemps(context)

TempPoolDiscipline(c) ==
    /\ Len(c.freeVars) <= c.varCounter
    /\ \A i, j \in 1..Len(c.freeVars) : c.freeVars[i] = c.freeVars[j] => i = j

\* C6  Temp pool discipline: no temporary is on the free list twice (so none
\* is handed out while a caller still holds it), and the free list is never
\* longer than the number of temporaries created.
C6_TempPoolDiscipline == pc # "failed" => TempPoolDiscipline(context)

BinaryOperandOrder(c) ==
    \A i \in EventsOf(c, "binary") :
        LET e == c.events[i]
        IN /\ e.leftEnd <= e.rightEnd
           /\ isTempVar(e.left) => Intact(c, e.left, e.leftEnd, e.rightEnd)

\* C7  Order of binary operands: what is emitted for the left operand comes
\* before what is emitted for the right operand, and nothing emitted for the
\* right operand assigns to the operand that holds the left value, whatever
\* was lowered before in the same Context.
C7_BinaryOperandOrder == pc = "lowering" => BinaryOperandOrder(context)

\* where control goes from the end of the body of clause k of switch e: the
\* body of the next clause in source order, or the position after the switch
NextBody(e, k) ==
    IF k < Len(e.clauses) THEN e.clauses[k + 1].bodyStart ELSE e.exit

\* where control goes when every test from clause k on has failed
NoMatch(e, k) ==
    LET later == {t \in TestClauses(e) : t > k}
    IN IF later # {} THEN e.clauses[SetMin(later)].testStart
       ELSE IF DefaultClauses(e) # {}
       THEN e.clauses[SetMin(DefaultClauses(e))].bodyStart
       ELSE e.exit

\* the three statements before the body of test clause k are
\*   t1 = localId === <test>;  t2 = !t1;  if (t2) GOTO <NoMatch>
\* so a test that succeeds falls into the body
TestBranch(c, e, k) ==
    LET branch == StmtAt(c, e.clauses[k].bodyStart - 1)
        negated == StmtAt(c, e.clauses[k].bodyStart - 2)
        compared == StmtAt(c, e.clauses[k].bodyStart - 3)
    IN /\ e.clauses[k].testStart <= e.clauses[k].bodyStart - 3
       /\ branch.type = "IfStatement"
       /\ branch.consequent.goto = e.clauses[k].reject
       /\ Target(c, e.clauses[k].reject) = NoMatch(e, k)
       /\ AssignsTo(negated, branch.test)
       /\ negated.expression.right.type = "UnaryExpression"
       /\ negated.expression.right.operator = "!"
       /\ AssignsTo(compared, negated.expression.right.argument)
       /\ compared.expression.right.type = "BinaryExpression"
       /\ compared.expression.right.operator = "==="

\* the statement that ends the body of clause k is a jump to NextBody
FallThrough(c, e, k) ==
    LET exit == StmtAt(c, e.clauses[k].leave)
    IN /\ e.clauses[k].bodyStart <= e.clauses[k].leave
       /\ exit.type = "GotoStatement"
       /\ Target(c, exit.goto) = NextBody(e, k)

SwitchFlow(c) ==
    \A i \in EventsOf(c, "switch") :
        LET e == c.events[i]
        IN /\ e.bound = NoMatch(e, 0)
           /\ \A k \in 1..Len(e.clauses) : FallThrough(c, e, k)
           /\ \A k \in TestClauses(e) : TestBranch(c, e, k)

\* C8  Switch control flow, with the default clause first, in the middle,
\* last or absent: the end of a clause's body jumps to the body of the next
\* clause in source order (no test in between) and the end of the last clause
\* to the position after the switch; the path on which every test fails
\* goes from test to test and then to the default body, or to the position
\* after the switch if there is no default.
C8_SwitchFlow == pc = "lowering" => SwitchFlow(context)

\* a switch of three clauses with the default in the middle, and a first
\* clause whose body is not empty, has been lowered
C8_Witness ==
    /\ pc = "lowering"
    /\ \E i \in EventsOf(context, "switch") :
          LET e == context.events[i]
          IN /\ Len(e.clauses) = 3
             /\ e.clauses[2].isDefault
             /\ e.clauses[1].bodyStart < e.clauses[1].leave

\* the loops of one type in which an unlabeled continue has been lowered
\* against the loop's own frame
LoopsContinued(c, type) ==
    {i \in EventsOf(c, "loop") :
        /\ c.events[i].type = type
        /\ \E j \in EventsOf(c, "continue") :
              /\ c.events[j].goto = c.events[i].continue
              /\ ~c.events[j].labeled}

WhileContinueTarget(c) ==
    \A i \in LoopsContinued(c, "WhileStatement") :
        Target(c, c.events[i].continue) = Target(c, c.events[i].start)

\* C9  An unlabeled continue in the body of a while loop jumps where the
\* back-edge jumps: to the loop start, where the test is evaluated.
C9_WhileContinue == pc # "failed" => WhileContinueTarget(context)

ForContinueTarget(c) ==
    \A i \in LoopsContinued(c, "ForStatement") :
        LET e == c.events[i]
        IN Target(c, e.continue) = IF e.hasUpdate THEN e.update ELSE Target(c, e.start)

\* C10  An unlabeled continue in the body of a for loop jumps to the first
\* statement of the lowered update, and to the loop start if the loop has no
\* update.
C10_ForContinue == pc # "failed" => ForContinueTarget(context)

\* ------------------------------------------------------------------------
\* Reading the output function by function

\* the elements of a sequence
Range(seq) == {seq[i] : i \in 1..Len(seq)}

\* the lowered function expressions that the statements stmts assign
LoweredFunctions(stmts) ==
    {stmts[j].expression.right :
        j \in {i \in 1..Len(stmts) :
                 /\ stmts[i].type = "ExpressionStatement"
                 /\ stmts[i].expression.type = "AssignmentExpression"
                 /\ stmts[i].expression.right.type = "FunctionExpression"
                 /\ stmts[i].expression.right.funcContext # None}}

RECURSIVE FunctionContexts(_)
\* the Context c and the Contexts of the functions lowered for it, at any
\* depth (funcContext of FunctionExpression)
FunctionContexts(c) ==
    {c} \cup UNION {FunctionContexts(fn.funcContext) : fn \in LoweredFunctions(c.statements)}

\* the handles that leave() finds queued
PendingAtLeave(c) == Range(c.pendingReturns) \cup Range(c.pendingThrows)

EpilogueIsSink(c) ==
    LET last == Len(c.statements)
    IN PendingAtLeave(c) # {} =>
         /\ c.statements[last].type = "EmptyStatement"
         /\ \A g \in PendingAtLeave(c) :
                /\ Target(c, g) # Undefined
                /\ Target(c, g) = LabelOf(c, last)

\* C11  The epilogue is the universal sink: when leave() has run, every
\* handle queued in pendingReturns and pendingThrows has the same target,
\* which is the position after all lowered statements of the function: the
\* statement that carries that position as its label is the empty statement
\* leave() appended, and it is the last statement of the function.
C11_EpilogueIsSink == pc = "done" => \A c \in FunctionContexts(context) : EpilogueIsSink(c)

\* the program has left a handle to leave(), and a nested function handles
\* of both queues
C11_Witness ==
    /\ pc = "done"
    /\ PendingAtLeave(context) # {}
    /\ \E c \in FunctionContexts(context) :
          c # context /\ Len(c.pendingReturns) > 0 /\ Len(c.pendingThrows) > 0

\* the runtime helpers
Helpers == {"GET_PROPERTY", "SET_PROPERTY", "CALL"}

\* the positions of the helper call statements of c
HelperCalls(c) ==
    {p \in 0..(pos(c) - 1) :
        /\ StmtAt(c, p).type = "ExpressionStatement"
        /\ StmtAt(c, p).expression.type = "CallExpression"
        /\ StmtAt(c, p).expression.callee \in {Ident(h) : h \in Helpers}}

\* the statement after the helper call at p is  if (__ERROR) GOTO ...  and
\* its handle is queued in pendingThrows unless a try statement has taken it
\* from there and resolved it
ThrowChecked(c, p) ==
    /\ p + 1 < pos(c)
    /\ StmtAt(c, p + 1).type = "IfStatement"
    /\ StmtAt(c, p + 1).test = ERROR
    /\ \E i \in EventsOf(c, "throwSite") :
          /\ c.events[i].call = p
          /\ c.events[i].goto = StmtAt(c, p + 1).consequent.goto
          /\ c.events[i].args = StmtAt(c, p).expression.arguments
    /\ \/ StmtAt(c, p + 1).consequent.goto \in Range(c.pendingThrows)
       \/ Target(c, StmtAt(c, p + 1).consequent.goto) # Undefined

\* pos() before the k-th argument of the helper call of event e was bound
BoundFrom(e, k) == IF k = 1 THEN e.from ELSE e.bound[k - 1]

\* the arguments of the helper call of event e are reusable expressions;
\* what was emitted to bind the k-th ends with the assignment to the k-th
\* and lies after what was emitted for the arguments before it and before
\* the call
ArgumentsBound(c, e) ==
    /\ Len(e.bound) = Len(e.args)
    /\ \A k \in 1..Len(e.args) :
          /\ isTempVar(e.args[k]) \/ isSimpleLiteral(e.args[k])
          /\ BoundFrom(e, k) <= e.bound[k]
          /\ e.bound[k] <= e.call
          /\ BoundFrom(e, k) < e.bound[k] =>
                 AssignsTo(StmtAt(c, e.bound[k] - 1), e.args[k])

ImplicitThrowCheck(c) ==
    /\ \A p \in HelperCalls(c) : ThrowChecked(c, p)
    /\ \A i \in EventsOf(c, "throwSite") :
          c.events[i].call # -1 =>
              /\ c.events[i].call \in HelperCalls(c)
              /\ ArgumentsBound(c, c.events[i])

\* C12  Implicit throw-check: every helper call statement (GET_PROPERTY,
\* SET_PROPERTY, CALL) is followed at once by a conditional jump whose test
\* is __ERROR and whose handle is queued in pendingThrows when it is emitted;
\* the arguments of the helper are bound in source order, all before the
\* helper call statement.  (That a binding is still intact at the call is the
\* matter of C3 and C6, not of this claim.)
C12_ImplicitThrowCheck == pc = "lowering" => ImplicitThrowCheck(context)

\* a helper call with three arguments, two of which had to be bound, has
\* been lowered
C12_Witness ==
    /\ pc = "lowering"
    /\ \E i \in EventsOf(context, "throwSite") :
          LET e == context.events[i]
          IN /\ Len(e.args) = 3
             /\ Cardinality({k \in 1..3 : BoundFrom(e, k) < e.bound[k]}) >= 2

\* stmt is `left = right`
Assigns(stmt, left, right) == AssignsTo(stmt, left) /\ stmt.expression.right = right

\* the handler whose landing pad is at position landing: the jump before the
\* landing pad goes to the position after the restore of the parameter, and
\* between the two lie, in this order,
\*     saved = param;  param = __ERROR;  __ERROR = undefined;  <body>;  param = saved
\* where the body does not assign to saved
HandlerProtocol(c, landing) ==
    LET skip == StmtAt(c, landing - 1)
        saved == StmtAt(c, landing).expression.left
        param == StmtAt(c, landing).expression.right
        end == Target(c, skip.goto)
    IN /\ landing >= 1
       /\ skip.type = "GotoStatement"
       /\ end # Undefined
       /\ landing + 4 <= end
       /\ end <= pos(c)
       /\ AssignsTo(StmtAt(c, landing), saved)
       /\ isTempVar(saved)
       /\ param.type = "Identifier"
       /\ ~isTempVar(param)
       /\ Assigns(StmtAt(c, landing + 1), param, ERROR)
       /\ Assigns(StmtAt(c, landing + 2), ERROR, Undef)
       /\ Assigns(StmtAt(c, end - 1), param, saved)
       /\ Intact(c, saved, landing + 3, end - 1)

CatchProtocol(c) ==
    \A i \in EventsOf(c, "catch") : HandlerProtocol(c, c.events[i].landing)

\* C13  Catch handler protocol: for a try with a handler and a pending
\* throw, the success path ends with a jump over the whole handler; the
\* handler saves the parameter in a temporary, assigns __ERROR to the
\* parameter, clears __ERROR, runs the body and restores the parameter from
\* the temporary, and no statement of the body assigns to that temporary.
C13_CatchProtocol == pc = "lowering" => CatchProtocol(context)

RECURSIVE EmittedFunctions(_)
\* the lowered function expressions in the output stmts, at any depth: those
\* assigned in stmts and those assigned in the body of one of them
EmittedFunctions(stmts) ==
    LoweredFunctions(stmts)
        \cup UNION {EmittedFunctions(fn.body.body) : fn \in LoweredFunctions(stmts)}

\* the names a var declaration lists
Declared(decl) == {decl.declarations[i].id.name : i \in 1..Len(decl.declarations)}

\* the temporaries the statements of body assign
TempsAssigned(body) ==
    {body[j].expression.left.name :
        j \in {i \in 1..Len(body) :
                 /\ body[i].type = "ExpressionStatement"
                 /\ body[i].expression.type = "AssignmentExpression"
                 /\ isTempVar(body[i].expression.left)}}

\* body, the emitted body of the function lowered in Context c, begins with
\* the one var declaration of the function, which lists every scope variable
\* of c without initializer, the temporaries of body among them
CompletePrologue(body, c) ==
    Len(c.scopeVars) > 0 =>
        /\ Len(body) > 0
        /\ body[1].type = "VariableDeclaration"
        /\ \A j \in 2..Len(body) : body[j].type # "VariableDeclaration"
        /\ Declared(body[1]) = {c.scopeVars[i].id.name : i \in 1..Len(c.scopeVars)}
        /\ Len(body[1].declarations) = Cardinality(Declared(body[1]))
        /\ \A i \in 1..Len(body[1].declarations) : IsNone(body[1].declarations[i].init)
        /\ TempsAssigned(body) \subseteq Declared(body[1])

\* C14  Every lowered function has a complete declaration prologue: the
\* emitted body of the program, and of every nested function expression or
\* function declaration alike, begins with one var declaration that lists
\* every scope variable of the function's Context (user variables, names of
\* function declarations and every temporary its statements use), each
\* without initializer.
C14_CompletePrologue ==
    pc = "done" =>
        /\ CompletePrologue(context.statements, context)
        /\ \A fn \in EmittedFunctions(context.statements) :
               CompletePrologue(fn.body.body, fn.funcContext)

\* the names of the function declarations lowered in Context c
FunctionsDeclared(c) ==
    {c.events[i].name : i \in EventsOf(c, "functionDeclaration")}

\* stmt assigns a lowered function expression to the variable name
AssignsFunction(stmt, name) ==
    /\ AssignsTo(stmt, Ident(name))
    /\ stmt.expression.right.type = "FunctionExpression"
    /\ stmt.expression.right.funcContext # None

\* body, the emitted body of the function lowered in Context c, has after
\* its var declaration one assignment for each function declared in c, and
\* the lowered statements, so every label, come after these assignments
HoistedAsAssignments(body, c) ==
    LET names == FunctionsDeclared(c)
        h == Cardinality(names)
    IN names # {} =>
         /\ Len(body) >= h + 1
         /\ body[1].type = "VariableDeclaration"
         /\ \A n \in names :
                /\ Cardinality({j \in 2..(h + 1) : AssignsFunction(body[j], n)}) = 1
                /\ \A i \in 1..Len(body[1].declarations) :
                       body[1].declarations[i].id.name = n =>
                           IsNone(body[1].declarations[i].init)
         /\ \A j \in 1..Len(c.statements) : LabelOf(c, j) # NoComment => j > h + 1

\* C15  Function declarations are hoisted as assignments: once a function's
\* Context is finalized (the program's or a nested function's), each function
\* declaration lowered in it is one assignment of the lowered function
\* expression to its name in the emitted body of that function, after the var
\* declaration and before the first lowered statement, hence before every
\* label; its declarator in the var declaration has no initializer.
C15_HoistedAsAssignments ==
    pc = "done" =>
        /\ HoistedAsAssignments(context.statements, context)
        /\ \A fn \in EmittedFunctions(context.statements) :
               HoistedAsAssignments(fn.body.body, fn.funcContext)

\* the labels that the output of Context c carries
LabelsOf(c) == {LabelOf(c, j) : j \in 1..Len(c.statements)} \ {NoComment}

LabelDensity(c) ==
    /\ LabelsOf(c) = 0..(Cardinality(LabelsOf(c)) - 1)
    /\ \A t \in LabelsOf(c) : Cardinality(Labeled(c, t)) = 1
    /\ \A i, j \in 1..Len(c.statements) :
           (i < j /\ LabelOf(c, i) # NoComment /\ LabelOf(c, j) # NoComment)
               => LabelOf(c, i) < LabelOf(c, j)

\* C16  Label density and uniqueness: the labels in the output of one
\* function are the integers 0..n-1 for some n, without gaps, in emission
\* order, and each label is carried by exactly one position of the output.
C16_LabelDensity == pc = "done" => \A c \in FunctionContexts(context) : LabelDensity(c)

\* every statement GOTO(...) of the output of c is followed by a labeled
\* statement, or by none
TerminatorsEndBlocks(c) ==
    \A j \in 1..Len(c.statements) :
        (c.statements[j].type = "GotoStatement" /\ j < Len(c.statements))
            => LabelOf(c, j + 1) # NoComment

\* C17  Terminators end their block: a block being a maximal run of
\* statements that starts at a labeled statement, every unconditional GOTO
\* (of break, continue, return, throw, a loop's back-edge, the join of an
\* if/else, the exit of a switch case) is the last statement of its block:
\* the statement emitted after it, if there is one, is labeled.
C17_TerminatorsEndBlocks ==
    pc = "done" => \A c \in FunctionContexts(context) : TerminatorsEndBlocks(c)

\* ------------------------------------------------------------------------
\* Reading the program that is lowered

\* the frame that lowering the body of stmt pushes for a continue to look at:
\* its name, and whether it has a continue handle
FrameOf(stmt) ==
    CASE stmt.type \in {"WhileStatement", "DoWhileStatement", "ForStatement"} ->
             [name |-> "", loop |-> TRUE]
      [] stmt.type = "LabeledStatement" ->
             [name |-> stmt.label.name, loop |-> stmt.body.type \in LoopTypes]
      [] OTHER -> [name |-> "", loop |-> FALSE]

\* a continue with this name finds a loop among the frames
ContinueMatches(name, frames) ==
    \E i \in 1..Len(frames) :
        frames[i].loop /\ (name = "" \/ frames[i].name = name)

\* a break with this name finds a frame of that name
BreakMatches(name, frames) == \E i \in 1..Len(frames) : frames[i].name = name

RECURSIVE Unmatched(_, _, _, _, _)
\* the node holds a statement of the given type (break or continue) that
\* matches none of the frames of its own function.  program: the node is at
\* the level of the program, outside every function; deferred: the function
\* declarations of the program are left out (they are lowered by leave())
Unmatched(type, node, frames, program, deferred) ==
    LET Some(nodes, fs) ==
            \E i \in 1..Len(nodes) : Unmatched(type, nodes[i], fs, program, deferred)
        In(child) == Unmatched(type, child, frames, program, deferred)
        Body(child) ==
            Unmatched(type, child, Append(frames, FrameOf(node)), program, deferred)
    IN CASE node.type = "ContinueStatement" ->
                type = node.type /\ ~ContinueMatches(LabelName(node), frames)
         [] node.type = "BreakStatement" ->
                type = node.type /\ ~BreakMatches(LabelName(node), frames)
         [] node.type = "BlockStatement" -> Some(node.body, frames)
         [] node.type = "ExpressionStatement" -> In(node.expression)
         [] node.type = "IfStatement" ->
                In(node.test) \/ In(node.consequent) \/ In(node.alternate)
         [] node.type \in {"WhileStatement", "DoWhileStatement"} ->
                In(node.test) \/ Body(node.body)
         [] node.type = "ForStatement" ->
                In(node.init) \/ In(node.test) \/ In(node.update) \/ Body(node.body)
         [] node.type = "LabeledStatement" -> Body(node.body)
         [] node.type = "SwitchStatement" ->
                \/ In(node.discriminant)
                \/ \E k \in 1..Len(node.cases) :
                       \/ In(node.cases[k].test)
                       \/ Some(node.cases[k].consequent, Append(frames, FrameOf(node)))
         [] node.type = "TryStatement" ->
                \/ In(node.block)
                \/ (~IsNone(node.handler) /\ In(node.handler.body))
                \/ In(node.finalizer)
         [] node.type \in {"ReturnStatement", "ThrowStatement", "UnaryExpression"} ->
                In(node.argument)
         [] node.type = "VariableDeclaration" ->
                \E k \in 1..Len(node.declarations) : In(node.declarations[k].init)
         [] node.type = "FunctionDeclaration" ->
                /\ ~(program /\ deferred)
                /\ Unmatched(type, node.body, <<>>, FALSE, deferred)
         [] node.type = "FunctionExpression" ->
                Unmatched(type, node.body, <<>>, FALSE, deferred)
         [] node.type = "AssignmentExpression" -> In(node.left) \/ In(node.right)
         [] node.type = "BinaryExpression" -> In(node.left) \/ In(node.right)
         [] node.type = "MemberExpression" -> In(node.object) \/ In(node.property)
         [] node.type = "CallExpression" -> In(node.callee) \/ Some(node.arguments, frames)
         [] OTHER -> FALSE

InvalidContinue(node, frames, program, deferred) ==
    Unmatched("ContinueStatement", node, frames, program, deferred)

\* the frame i of the label stack that event e saw can be continued to
\* under the name of e
Eligible(e, i) ==
    /\ e.stack[i].goto # NoGoto
    /\ (e.name = "" \/ e.stack[i].name = e.name)

\* the continue of event e jumps to the handle of the innermost eligible
\* frame, with the statement GOTO at the position the handler found
ContinueSelected(c, e) ==
    /\ \E i \in 1..Len(e.stack) :
          /\ Eligible(e, i)
          /\ e.stack[i].goto = e.goto
          /\ \A j \in (i + 1)..Len(e.stack) : ~Eligible(e, j)
    /\ StmtAt(c, e.at) = GotoStmt(e.goto)

\* the continue of event e found no eligible frame, and no jump to a continue
\* handle of the frames it saw has been emitted for it
ContinueRejected(c, e) ==
    /\ \A i \in 1..Len(e.stack) : ~Eligible(e, i)
    /\ \A p \in e.at..(pos(c) - 1) :
          GotoOf(StmtAt(c, p)) = NoGoto
              \/ \A i \in 1..Len(e.stack) : e.stack[i].goto # GotoOf(StmtAt(c, p))

ContinueChecked(c) ==
    /\ \A i \in EventsOf(c, "continue") : ContinueSelected(c, c.events[i])
    /\ \A i \in EventsOf(c, "invalidContinue") :
          c.error = "Continue to invalid label" /\ ContinueRejected(c, c.events[i])

\* C18  An invalid continue is an error: a continue for which the label
\* stack of its Context has no frame with a continue handle and a matching
\* name (any frame with a handle, if the continue has no label) raises an
\* error and emits no jump; frames without a handle (switch, labeled
\* statements that are not loops) and the frames of an enclosing function
\* are never selected, and of the matching frames the innermost is selected.
C18_InvalidContinue ==
    /\ pc # "done" => ContinueChecked(context)
    /\ pc = "lowering" => ~InvalidContinue(BlockStmt(ast), <<>>, TRUE, TRUE)
    /\ pc = "done" => ~InvalidContinue(BlockStmt(ast), <<>>, TRUE, FALSE)
    /\ (pc = "failed" /\ context.error = "Continue to invalid label")
           => InvalidContinue(BlockStmt(ast), <<>>, TRUE, FALSE)

\* a continue in a loop inside a loop has selected a frame, and then a
\* continue under the frame of a labeled block has been rejected
C18_Witness ==
    /\ pc = "failed"
    /\ \E i \in EventsOf(context, "continue") :
          Cardinality({j \in 1..Len(context.events[i].stack) :
                          Eligible(context.events[i], j)}) >= 2
    /\ \E i \in EventsOf(context, "invalidContinue") :
          Len(context.events[i].stack) > 0

\* leave() found a frame on the label stack or a pending break
Unbalanced(c) == Len(c.labelStack) > 0 \/ Len(c.pendingBreaks) > 0

\* the step of the main program that calls context.leave()
LeaveStep == pc = "lowering" /\ pc' # "lowering" /\ ast' = ast

\* leave() on an unbalanced Context raises an error and changes neither the
\* statements nor their labels nor any jump target
LeaveRefuses ==
    (LeaveStep /\ Unbalanced(context)) =>
        /\ pc' = "failed"
        /\ context'.statements = context.statements
        /\ context'.stmtComments = context.stmtComments
        /\ context'.gotos = context.gotos

\* every jump in the output of c has a target
JumpsResolved(c) ==
    \A j \in 1..Len(c.statements) :
        GotoOf(c.statements[j]) # NoGoto => Target(c, GotoOf(c.statements[j])) # Undefined

\* what is lowered to the end has no unresolved jump, whatever breaks the
\* program holds (a break that matches no enclosing frame waits in
\* pendingBreaks, where leave() finds it unless the leaveBlock() of a later
\* statement has resolved it); and the error for a pending break is raised
\* only if a break of the program matches no enclosing frame
NoStrayBreak ==
    /\ pc = "done" => \A c \in FunctionContexts(context) : JumpsResolved(c)
    /\ (pc = "failed"
          /\ context.error = "Attempted to leave the context with unresolved break statements")
          => Unmatched("BreakStatement", BlockStmt(ast), <<>>, TRUE, FALSE)

\* C19  Unresolved breaks and unbalanced label frames are caught at
\* finalization: leave() raises an error, and makes no prologue and no
\* labels, whenever the label stack or pendingBreaks is not empty; so a break
\* whose name matches no enclosing frame of its own function never gives an
\* output with an unresolved GOTO.
C19_LeaveRefuses == [][LeaveRefuses]_vars /\ []NoStrayBreak

\* leave() of the program has refused a pending break
C19_Witness ==
    /\ pc = "failed"
    /\ Len(context.pendingBreaks) > 0
    /\ context.error = "Attempted to leave the context with unresolved break statements"
    /\ context.statements[1].type # "VariableDeclaration"

\* as many temporaries of c are free as were created
PoolBalanced(c) == c.varCounter = Len(c.freeVars)

\* C20  Locked temporaries are reported at finalization: leave() raises an
\* error whenever varCounter differs from the length of freeVars, so
\* lowering never completes with an unbalanced temp pool.
C20_LockedTempsReported ==
    pc = "done" => \A c \in FunctionContexts(context) : PoolBalanced(c)

\* ------------------------------------------------------------------------
\* Unsupported nodes

\* the keys of stmtHandlers
StmtHandlerTypes ==
    {"ExpressionStatement", "DebuggerStatement", "LabeledStatement", "BlockStatement",
     "BreakStatement", "ReturnStatement", "ContinueStatement", "IfStatement",
     "WhileStatement", "DoWhileStatement", "ForStatement", "EmptyStatement",
     "SwitchStatement", "VariableDeclaration", "FunctionDeclaration", "ThrowStatement",
     "TryStatement", "WithStatement"}

\* the keys of exprHandlers
ExprHandlerTypes ==
    {"Literal", "Identifier", "FunctionExpression", "MemberExpression",
     "AssignmentExpression", "CallExpression", "UnaryExpression", "BinaryExpression"}

\* the node is given to the handlers of this table and has no handler there
\* that lowers it
IsUnsupported(node, handlers) ==
    \/ handlers = "stmtHandlers" /\ node.type \notin StmtHandlerTypes \ {"WithStatement"}
    \/ handlers = "exprHandlers" /\ node.type \notin ExprHandlerTypes

\* the message of the error for a node of this type
UnsupportedMessage(type) ==
    IF type = "WithStatement" THEN "Why?!!!" ELSE "Unhandled type " \o type \o "."

\* the messages of the other errors of the program
InvariantMessages ==
    {"GOTO was already resolved.", "Continue to invalid label",
     "Attempted to leave block when there was none.",
     "Attempted to leave the context with non-empty label stack",
     "Attempted to leave the context with unresolved break statements"}

RECURSIVE Rejected(_, _, _, _, _)
\* the messages of the unsupported nodes in node, which is given to the
\* handlers of the named table, at the places the walk gives to transformStmt
\* or transformExpr.  caught: the bodies of catch clauses are walked (they are
\* when a throw is pending after the block); program: the node is at the
\* level of the program; deferred: the function declarations of the program
\* are left out (they are lowered by leave())
Rejected(node, handlers, caught, program, deferred) ==
    LET S(child) == Rejected(child, "stmtHandlers", caught, program, deferred)
        E(child) == Rejected(child, "exprHandlers", caught, program, deferred)
        Ss(nodes) == UNION {S(nodes[i]) : i \in 1..Len(nodes)}
        Es(nodes) == UNION {E(nodes[i]) : i \in 1..Len(nodes)}
        Key(member) == IF member.computed THEN E(member.property) ELSE {}
    IN IF IsNone(node) THEN {}
       ELSE IF IsUnsupported(node, handlers) THEN {UnsupportedMessage(node.type)}
       ELSE CASE node.type = "ExpressionStatement" -> E(node.expression)
              [] node.type = "LabeledStatement" -> S(node.body)
              [] node.type = "BlockStatement" -> Ss(node.body)
              [] node.type \in {"ReturnStatement", "ThrowStatement", "UnaryExpression"} ->
                     E(node.argument)
              [] node.type = "IfStatement" ->
                     E(node.test) \cup S(node.consequent) \cup S(node.alternate)
              [] node.type \in {"WhileStatement", "DoWhileStatement"} ->
                     E(node.test) \cup S(node.body)
              [] node.type = "ForStatement" ->
                     (IF is(node.init, "VariableDeclaration") THEN S(node.init)
                      ELSE E(node.init))
                         \cup E(node.test) \cup E(node.update) \cup S(node.body)
              [] node.type = "SwitchStatement" ->
                     E(node.discriminant)
                         \cup UNION {E(node.cases[k].test) \cup Ss(node.cases[k].consequent) :
                                        k \in 1..Len(node.cases)}
              [] node.type = "VariableDeclaration" ->
                     UNION {E(node.declarations[k].init) : k \in 1..Len(node.declarations)}
              [] node.type = "FunctionDeclaration" ->
                     IF program /\ deferred THEN {}
                     ELSE Rejected(node.body, "stmtHandlers", caught, FALSE, deferred)
              [] node.type = "FunctionExpression" ->
                     Rejected(node.body, "stmtHandlers", caught, FALSE, deferred)
              [] node.type = "TryStatement" ->
                     S(node.block)
                         \cup (IF caught /\ ~IsNone(node.handler) THEN S(node.handler.body)
                               ELSE {})
                         \cup S(node.finalizer)
              [] node.type = "MemberExpression" -> E(node.object) \cup Key(node)
              [] node.type = "AssignmentExpression" ->
                     IF is(node.left, "MemberExpression")
                     THEN E(node.left.object) \cup Key(node.left) \cup E(node.right)
                     ELSE E(node.right)
              [] node.type = "CallExpression" -> E(node.callee) \cup Es(node.arguments)
              [] node.type = "BinaryExpression" -> E(node.left) \cup E(node.right)
              [] OTHER -> {}

\* lowering has stopped on the error of an unsupported node
UnsupportedFailure(p, c) ==
    p = "failed" /\ c.error \notin InvariantMessages

\* what is lowered without error holds no unsupported node at a place the
\* walk visits, and the error of an unsupported node names a node of the
\* program; a Context that failed is not finalized
UnsupportedRejected ==
    /\ pc = "lowering" =>
           Rejected(BlockStmt(ast), "stmtHandlers", FALSE, TRUE, TRUE) = {}
    /\ pc = "done" =>
           Rejected(BlockStmt(ast), "stmtHandlers", FALSE, TRUE, FALSE) = {}
    /\ UnsupportedFailure(pc, context) =>
           /\ context.error \in Rejected(BlockStmt(ast), "stmtHandlers", TRUE, TRUE, FALSE)
           /\ \A j \in 1..Len(context.statements) :
                  context.statements[j].type # "VariableDeclaration"

\* the step that raises the error of an unsupported node raises it for a
\* node of the statement being lowered (for a node of a function declaration
\* if the step is leave()), and no step follows a failure
UnsupportedIsTerminal ==
    /\ pc # "failed"
    /\ (UnsupportedFailure(pc', context') /\ ast' # ast) =>
           context'.error \in
               Rejected(ast'[Len(ast')], "stmtHandlers", TRUE, TRUE, TRUE)
    /\ (UnsupportedFailure(pc', context') /\ ast' = ast) =>
           context'.error \in
               Rejected(BlockStmt(ast), "stmtHandlers", TRUE, TRUE, FALSE)
                   \ Rejected(BlockStmt(ast), "stmtHandlers", TRUE, TRUE, TRUE)

\* C21  Unsupported nodes abort lowering: a node whose kind has no handler
\* (or WithStatement, whose handler throws), given to transformStmt or
\* transformExpr, raises an error that names it, whether it is a statement of
\* the program, an expression inside one, or in the body of a nested
\* function; the error is terminal: no later statement is lowered and the
\* output is not finalized.
C21_UnsupportedAborts == [][UnsupportedIsTerminal]_vars /\ []UnsupportedRejected

\* a logical expression in the test of an if statement has stopped the
\* lowering of the second statement of a program
C21_Witness ==
    /\ pc = "failed"
    /\ Len(ast) = 2
    /\ context.error = "Unhandled type LogicalExpression."
    /\ pos(context) > 0

\* ------------------------------------------------------------------------
\* Lowering what is already lowered

\* node is a statement  GOTO(arg)  as the output holds it (interface
\* GotoStatement)
IsGotoStatement(node) ==
    /\ node.type = "ExpressionStatement"
    /\ node.expression.type = "CallExpression"
    /\ node.expression.callee = Ident("GOTO")
    /\ Len(node.expression.arguments) = 1

\* what was emitted for each statement GOTO(arg) that was lowered is that
\* statement and nothing else
GotoOpaque(c) ==
    \A i \in EventsOf(c, "stmt") :
        LET e == c.events[i]
        IN IsGotoStatement(e.node) =>
             /\ e.to = e.from + 1
             /\ StmtAt(c, e.from) = e.node

\* C22  GOTO is opaque under re-lowering: lowering a statement that is a call
\* GOTO(arg), alone or as the consequent of a branch, emits that statement
\* unchanged: no CALL helper and no throw-check stand in its place.
C22_GotoOpaque == pc = "lowering" => GotoOpaque(context)

\* ------------------------------------------------------------------------
\* Finalizers

\* the handles that were pending when the lowering of the finalizer of event
\* e began and were made while its try statement was lowered: the jumps of
\* the throws, returns and breaks that leave the try statement
Escaping(e) ==
    {g \in Range(e.returns) \cup Range(e.throws)
              \cup {e.breaks[k].goto : k \in 1..Len(e.breaks)} :
        g >= e.firstGoto}

\* the positions at which the finalizer of event e stands
FinalizerAt(e) == e.from..(e.to - 1)

\* the finalizer of event e stands after the block and the handler of its
\* try statement, where both end: the block falls into it if no handler was
\* emitted; otherwise the jump that ends the block goes to its first
\* position and the handler, which ends with the restore of its parameter,
\* falls into it
ReachedNormally(c, e, i) ==
    /\ e.start <= e.blockEnd /\ e.blockEnd <= e.from /\ e.from <= e.to
    /\ c.events[i - 1].kind = "stmt"
    /\ c.events[i - 1].node = e.finalizer
    /\ c.events[i - 1].from = e.from
    /\ c.events[i - 1].to = e.to
    /\ ~e.caught => e.from = e.blockEnd
    /\ e.caught =>
           /\ StmtAt(c, e.blockEnd) = GotoStmt(e.allGood)
           /\ Target(c, e.allGood) = e.from
           /\ GotoOf(StmtAt(c, e.from - 1)) = NoGoto

\* no jump that leaves the try statement of event e goes to its finalizer
NotReachedAbnormally(c, e) ==
    /\ \A g \in Escaping(e) : Target(c, g) \notin FinalizerAt(e)
    /\ \A j \in EventsOf(c, "continue") :
           (e.start <= c.events[j].at /\ c.events[j].at < e.from)
               => Target(c, c.events[j].goto) \notin FinalizerAt(e)

FinallyInlined(c) ==
    \A i \in EventsOf(c, "finally") : ReachedNormally(c, c.events[i], i)

FinallySkipped(c) ==
    \A i \in EventsOf(c, "finally") : NotReachedAbnormally(c, c.events[i])

ResolvesAgain ==
    /\ ast' # ast
    /\ ast'[Len(ast')].type = "resolve"
    /\ Target(context, ast'[Len(ast')].goto) # Undefined

\* resolve() on a handle that has a target raises the error and changes no
\* handle, no labeled position and no statement
ResolveRefused ==
    ResolvesAgain =>
        /\ pc' = "failed"
        /\ context'.error = "GOTO was already resolved."
        /\ context'.gotos = context.gotos
        /\ context'.hadGotos = context.hadGotos
        /\ context'.statements = context.statements

\* a target that is written stays as it is
TargetKept ==
    \A g \in 1..Len(context.gotos) :
        Target(context, g) # Undefined => Target(context', g) = Target(context, g)

\* C24  The target of a jump handle is written at most once: resolve() on a
\* handle whose target is set, be it 0, raises an error and leaves the
\* target and the set of labeled positions as they were.
C24_ResolvedOnce == [][ResolveRefused /\ TargetKept]_vars

\* resolve() has been refused on an inserted handle whose target is 0, at a
\* position that is not 0
C24_Witness ==
    /\ pc = "failed"
    /\ context.error = "GOTO was already resolved."
    /\ ast[Len(ast)].type = "resolve"
    /\ Target(context, ast[Len(ast)].goto) = 0
    /\ context.gotos[ast[Len(ast)].goto].inserted
    /\ pos(context) > 0

\* ------------------------------------------------------------------------
\* Label frames

\* the pending breaks that leaveBlock() leaves when it pops a frame of this
\* name
OtherBreaks(breaks, name) ==
    LET Other(brk) == brk.name # name IN SelectSeq(breaks, Other)

\* the leaveBlock() of event e popped one frame, resolved to its position
\* the pending breaks of the name of that frame and only them, kept the
\* others in their order and touched neither pendingReturns nor pendingThrows
FramePopped(c, e) ==
    LET stack == e.stack[1]
        name == stack[Len(stack)].name
    IN /\ e.stack[2] = SubSeq(stack, 1, Len(stack) - 1)
       /\ e.breaks[2] = OtherBreaks(e.breaks[1], name)
       /\ \A k \in 1..Len(e.breaks[1]) :
              /\ e.targets[k] = IF e.breaks[1][k].name = name THEN e.at ELSE Undefined
              /\ e.breaks[1][k].name = name => Target(c, e.breaks[1][k].goto) = e.at
       /\ e.returns[2] = e.returns[1]
       /\ e.throws[2] = e.throws[1]

\* the loops and switch statements lowered in c
Breakables(c) == EventsOf(c, "loop") \cup EventsOf(c, "switch")

\* the first position of what a break of the loop or switch of event e may
\* stand in
BreakableFrom(e) == IF e.kind = "loop" THEN e.bodyStart ELSE e.bound

\* the loops and switch statements of c in which the break of event e stands
Enclosing(c, e) ==
    {i \in Breakables(c) : BreakableFrom(c.events[i]) <= e.at /\ e.at < c.events[i].exit}

\* an unlabeled break in a loop or a switch goes where the innermost of them
\* exits
BreakExits(c, e) ==
    (e.name = "" /\ Enclosing(c, e) # {}) =>
        \E i \in Enclosing(c, e) :
            /\ \A j \in Enclosing(c, e) : c.events[i].exit <= c.events[j].exit
            /\ Target(c, e.goto) = c.events[i].exit

\* the frame of a loop or switch is popped where the loop or switch exits
ExitPopsFrame(c, i) ==
    /\ c.events[i - 1].kind = "leaveBlock"
    /\ c.events[i - 1].at = c.events[i].exit

LeaveBlockResolves(c) ==
    /\ \A i \in EventsOf(c, "leaveBlock") : FramePopped(c, c.events[i])
    /\ \A i \in Breakables(c) : ExitPopsFrame(c, i)
    /\ \A i \in EventsOf(c, "break") : BreakExits(c, c.events[i])

BranchOnTest(c, e) ==
    LET branch == StmtAt(c, e.consStart - 1)
        negated == StmtAt(c, e.consStart - 2)
    IN /\ e.start <= e.consStart - 2
       /\ branch.type = "IfStatement"
       /\ branch.consequent.goto = e.reject
       /\ AssignsTo(negated, branch.test)
       /\ negated.expression.right.type = "UnaryExpression"
       /\ negated.expression.right.operator = "!"

\* where the jumps of the if statement of event e go: the false case to the
\* alternate, which begins after the jump that ends the consequent and goes
\* to the end of the statement; to the end of the consequent if there is no
\* alternate
BranchTargets(c, e) ==
    /\ e.consStart <= e.consEnd
    /\ e.hasAlt =>
           /\ StmtAt(c, e.consEnd) = GotoStmt(e.fulfill)
           /\ e.altStart = e.consEnd + 1
           /\ e.altStart <= e.end
           /\ Target(c, e.reject) = e.altStart
           /\ Target(c, e.fulfill) = e.end
    /\ ~e.hasAlt =>
           /\ e.end = e.consEnd
           /\ Target(c, e.reject) = e.end

IfSkeleton(c) ==
    \A i \in EventsOf(c, "if") : BranchOnTest(c, c.events[i]) /\ BranchTargets(c, c.events[i])

\* C26  If/else skeleton: the branch on the test of an if statement sends
\* the false case to the first statement of the alternate, or to the
\* position after the consequent if there is no alternate, and lets the true
\* case fall into the consequent; with an alternate the consequent ends with
\* an unconditional jump to the position after the alternate.
C26_IfSkeleton == pc = "lowering" => IfSkeleton(context)

\* an if statement with a consequent and an alternate that both emit
\* statements has been lowered
C26_Witness ==
    /\ pc = "lowering"
    /\ \E i \in EventsOf(context, "if") :
          LET e == context.events[i]
          IN /\ e.hasAlt
             /\ e.consStart < e.consEnd
             /\ e.altStart < e.end

\* ------------------------------------------------------------------------
\* Labeled loops

\* the frame of the label stack that the continue of event e selected
SelectedFrame(e) == CHOOSE k \in 1..Len(e.stack) : e.stack[k].goto = e.goto

\* the frame that the loop, which is the body of the labeled statement of
\* the selected frame, pushed for itself
OwnFrame(e) == e.stack[SelectedFrame(e) + 1]

\* the labeled continue of event e, which stands in the body of the loop
\* that its label names, jumps where an unlabeled continue of that loop
\* jumps, and not to a position before the start of the loop, where the
\* init of a for loop is already done
JumpsAsUnlabeled(c, e) ==
    /\ SelectedFrame(e) < Len(e.stack)
    /\ Target(c, e.goto) = Target(c, OwnFrame(e).goto)
    /\ \A i \in EventsOf(c, "loop") :
           c.events[i].continue = OwnFrame(e).goto
               => Target(c, e.goto) >= Target(c, c.events[i].start)

LabeledContinueTarget(c) ==
    \A i \in EventsOf(c, "continue") :
        c.events[i].labeled => JumpsAsUnlabeled(c, c.events[i])

\* C27  A labeled continue goes to the back-edge target of the labeled loop:
\* for a labeled statement whose body is a while, do-while or for loop, the
\* jump of  continue L  in the body has the target that an unlabeled
\* continue in that body has; for a for loop with an init it is not a
\* position before the init.
C27_LabeledContinue == pc # "failed" => LabeledContinueTarget(context)

\* ------------------------------------------------------------------------
\* Nested functions

RECURSIVE ReturnsIn(_, _)
\* the number of return statements in node that belong to the function in
\* which node stands, those of nested functions left out.  caught: the
\* bodies of catch clauses are counted (they are lowered when a throw is
\* pending after the block)
ReturnsIn(node, caught) ==
    LET RECURSIVE Among(_)
        Among(nodes) ==
            IF Len(nodes) = 0 THEN 0
            ELSE ReturnsIn(Head(nodes), caught) + Among(Tail(nodes))
        RECURSIVE AmongCases(_)
        AmongCases(cases) ==
            IF Len(cases) = 0 THEN 0
            ELSE Among(Head(cases).consequent) + AmongCases(Tail(cases))
    IN CASE node.type = "ReturnStatement" -> 1
         [] node.type = "BlockStatement" -> Among(node.body)
         [] node.type = "IfStatement" -> Among(<<node.consequent, node.alternate>>)
         [] node.type \in {"WhileStatement", "DoWhileStatement", "ForStatement",
                           "LabeledStatement"} -> ReturnsIn(node.body, caught)
         [] node.type = "SwitchStatement" -> AmongCases(node.cases)
         [] node.type = "TryStatement" ->
                Among(<<node.block, node.finalizer>>)
                    + (IF caught /\ ~IsNone(node.handler)
                       THEN ReturnsIn(node.handler.body, caught) ELSE 0)
         [] OTHER -> 0

\* lowering a function changed nothing of the Context in which it stands:
\* statements, temp pool, label stack, pending queues, handles and their
\* targets
EnclosingUntouched(c) ==
    \A i \in EventsOf(c, "function") : c.events[i].after = c.events[i].before

\* every jump in the output of c goes to a position of that output
OwnTargets(c) ==
    \A j \in 1..Len(c.statements) :
        GotoOf(c.statements[j]) # NoGoto =>
            Target(c, GotoOf(c.statements[j])) \in 0..(Len(c.statements) - 1)

\* the returns pending in the Context of the program are those of the return
\* statements of the program itself
OwnReturns ==
    /\ ReturnsIn(BlockStmt(ast), FALSE) <= Len(context.pendingReturns)
    /\ Len(context.pendingReturns) <= ReturnsIn(BlockStmt(ast), TRUE)

\* C28  Lowering contexts are isolated: lowering a nested function
\* expression or function declaration leaves the statement list, the temp
\* pool, the label stack and the pending queues of the enclosing Context as
\* they were and writes no target of its handles; the returns of a nested
\* function are not queued in the enclosing Context, and every jump of a
\* function goes to a position of that function.
C28_ContextsIsolated ==
    /\ pc = "lowering" => EnclosingUntouched(context)
    /\ pc = "done" => \A c \in FunctionContexts(context) :
                          EnclosingUntouched(c) /\ OwnTargets(c)
    /\ pc # "failed" => OwnReturns

\* a function with a return and a throw of its own has been lowered in the
\* body of a loop, with a break and a throw of the program pending, and the
\* program has a return of its own
C28_Witness ==
    /\ pc = "done"
    /\ Len(context.pendingReturns) > 0
    /\ \E i \in EventsOf(context, "function") :
          LET e == context.events[i]
          IN /\ Len(e.before.labelStack) > 0
             /\ Len(e.before.pendingBreaks) > 0
             /\ Len(e.before.pendingThrows) > 0
             /\ e.before.varCounter > 0
    /\ \E c \in FunctionContexts(context) :
          c # context /\ Len(c.pendingReturns) > 0 /\ Len(c.pendingThrows) > 0

\* ------------------------------------------------------------------------
\* Double resolution

\* the default clause of a switch stands at position k of its clauses
DefaultAt(stmt, k) ==
    /\ stmt.type = "SwitchStatement"
    /\ k \in 1..Len(stmt.cases)
    /\ IsNone(stmt.cases[k].test)

\* a try statement with a try statement in its block or in its handler
NestedTry(stmt) ==
    /\ stmt.type = "TryStatement"
    /\ \/ \E k \in 1..Len(stmt.block.body) : stmt.block.body[k].type = "TryStatement"
       \/ /\ ~IsNone(stmt.handler)
          /\ \E k \in 1..Len(stmt.handler.body.body) :
                stmt.handler.body.body[k].type = "TryStatement"

\* C29  No jump handle is resolved twice while a program is lowered and its
\* Context left: Goto.resolve never throws 'GOTO was already resolved.',
\* in the program or in a nested function (whose error aborts the lowering
\* of the program), whatever the position of the default clause of a switch
\* and however try statements nest.
C29_NoDoubleResolution == context.error # "GOTO was already resolved."

\* a try statement with a nested try and a switch with a default clause have
\* been lowered and the Context left, every handle of the program resolved
C29_Witness ==
    /\ pc = "done"
    /\ \E i, j \in 1..Len(ast) :
          /\ NestedTry(ast[i])
          /\ \E k \in 1..3 : DefaultAt(ast[j], k)
    /\ Len(context.gotos) > 3
    /\ \A g \in 1..Len(context.gotos) : context.gotos[g].value # Undefined

\* ------------------------------------------------------------------------
\* Labels

\* the targets of the handles of c that were both inserted and resolved
UsedTargets(c) ==
    {Target(c, g) : g \in {h \in 1..Len(c.gotos) :
                              c.gotos[h].inserted /\ Target(c, h) # Undefined}}

\* how many statements leave() put in front of the lowered list: the
\* lowered list ends at the final position, or one statement after it when
\* the final position is a target
Prepended(c) ==
    Len(c.statements) - (Epilogue(c) + (IF Epilogue(c) \in UsedTargets(c) THEN 1 ELSE 0))

\* the label the j-th statement of the output is to carry: i when the
\* statement stood at index i of the lowered list and i is a used target
LabelDue(c, j) ==
    IF j > Prepended(c) /\ (j - Prepended(c) - 1) \in UsedTargets(c)
    THEN j - Prepended(c) - 1 ELSE NoComment

LabelsAreTargets(c) == \A j \in 1..Len(c.statements) : LabelOf(c, j) = LabelDue(c, j)

\* C30  Labels are exactly the used jump targets and travel with their
\* statements: after leave(), a statement carries label i if and only if
\* some handle that was both inserted and resolved has target i, and it is
\* the statement that stood at index i of the lowered list before the
\* declaration and the hoisted initializers were put in front.
C30_LabelsAreTargets ==
    pc = "done" => \A c \in FunctionContexts(context) : LabelsAreTargets(c)

====
